---------------------------- MODULE Spec2Model ----------------------------
(***************************************************************************)
(* Model of the research-digest pipeline: collection, deduplication,      *)
(* concurrent existence validation, keyword relevance scoring,            *)
(* summarization and digest persistence.                                   *)
(*                                                                         *)
(* Text (titles, abstracts, keywords, identifiers, urls) is a sequence of  *)
(* one-character strings, so that matching, case folding and key building  *)
(* are computed character by character as the code computes them.          *)
(*                                                                         *)
(* A relevance score is stored in ninths: the code computes                *)
(* raw / 45 * 100 = raw * 20 / 9, so the stored integer is 9 times the     *)
(* float the code holds (exact for every integer raw sum).                 *)
(***************************************************************************)
EXTENDS Integers, Sequences, FiniteSets, TLC

VARIABLES
    pc,                \* position of the main thread
    period,            \* "none" | "daily" | "weekly": which run main() started
    keywords,          \* RelevanceScorer.keywords
    papers,            \* the local list `papers` of the running operation
    scorer_in,         \* the list filter_and_score_papers was called with
    min_score,         \* filter_and_score_papers' threshold argument
    last_score,        \* per paper object: what score_paper returned for it
    relevance_score,   \* Paper.relevance_score, per paper object (in ninths)
    matched_keywords,  \* Paper.matched_keywords, per paper object
    summary,           \* Paper.summary, per paper object
    cache,             \* PaperValidator._cache: key -> (is_valid, reason)
    batch,             \* the list validate_papers_batch was called with
    max_workers,       \* ThreadPoolExecutor(max_workers)
    future,            \* per submitted task: "pending" | "running" | "finished"
    fresult,           \* per submitted task: what future.result() gives
    outcome,           \* per submitted task: how its check went (see TaskOutcomes)
    yielded,           \* tasks as_completed has already handed to the loop
    validated_papers,  \* validate_papers_batch's local list
    invalid_count,     \* validate_papers_batch's local counter
    calls,             \* number of validate_papers_batch calls made so far
    first_verdict,     \* per task: the verdict the first batch call gave it
    has_client,        \* PaperSummarizer.client is set
    has_sender,        \* EmailSender.client is set
    local_saves,       \* number of files _save_locally wrote
    summarize_calls,   \* number of summarize_paper calls
    summarizer_in,     \* the list summarize_papers_batch was called with
    max_papers_arg,    \* summarize_papers_batch's max_papers argument
    backend,           \* per paper object: how its last summarize_paper call went
    today,             \* the calendar day datetime.now() shows
    available,         \* the records the sources currently offer
    runs,              \* number of main() processes that have exited
    digest_file,       \* data/<period>_digest_<date>.json, per file name
    saved,             \* the _save_digest calls so far: file name and data
    html_file,         \* data/<period>_digest_<date>.html, per file name
    email_attempts,    \* number of send_digest calls
    send_call,         \* the last send_digest call: the endpoint's answer, what it returned
    result,            \* the dict run_daily / run_weekly returned
    exit_code,         \* what main() passed to sys.exit
    unique,            \* what _deduplicate_papers returned
    client,            \* the source client whose fetch_recent is running
    subrequests,       \* number of sub-requests this fetch_recent makes
    request,           \* the sub-request fetch_recent is at
    all_papers,        \* the Paper records fetch_recent has gathered so far
    last_sub,          \* the last sub-request: answers met, requests sent, outcome
    fetched            \* what fetch_recent returned

vars == << pc, period, keywords, today, available, runs, papers, scorer_in, min_score, last_score,
           relevance_score,
           matched_keywords, summary, cache, batch, max_workers, future, fresult,
           outcome, yielded, validated_papers, invalid_count, calls,
           first_verdict, has_client, has_sender, local_saves, summarize_calls, summarizer_in, max_papers_arg,
           backend, digest_file, saved, html_file, email_attempts, send_call, result, exit_code,
           unique, client, subrequests, request, all_papers, last_sub, fetched >>

\* the variables of a source client's fetch_recent
collectorVars == << client, subrequests, request, all_papers, last_sub, fetched >>

-----------------------------------------------------------------------------
(* Bounds of the model *)

\* longest list handed to filter_and_score_papers in SpecScorer
MaxScored == 3

-----------------------------------------------------------------------------
(* Characters *)

UpperCase == <<"A","B","C","D","E","F","G","H","I","J","K","L","M","N","O","P","Q","R","S","T","U","V","W","X","Y","Z">>

LowerCase == <<"a","b","c","d","e","f","g","h","i","j","k","l","m","n","o","p","q","r","s","t","u","v","w","x","y","z">>

Digits == <<"0","1","2","3","4","5","6","7","8","9">>

Range(s) == { s[i] : i \in DOMAIN s }

\* \w of Python's re for ASCII text
WordChars == Range(UpperCase) \cup Range(LowerCase) \cup Range(Digits) \cup {"_"}

LowerOf == [ c \in Range(UpperCase) |->
               LowerCase[CHOOSE i \in DOMAIN UpperCase : UpperCase[i] = c] ]

\* str.lower() / re.IGNORECASE on one character
LowerChar(c) == IF c \in DOMAIN LowerOf THEN LowerOf[c] ELSE c

Min(a, b) == IF a <= b THEN a ELSE b

Max(a, b) == IF a >= b THEN a ELSE b

-----------------------------------------------------------------------------
(* Keyword configurations *)

\* RelevanceScorer._get_fallback_keywords
FallbackKeywords ==
    [ primary   |-> << <<"m","e","c","h","a","n","i","s","m"," ","d","e","s","i","g","n">>, <<"a","u","c","t","i","o","n"," ","t","h","e","o","r","y">>, <<"c","a","p","a","c","i","t","y"," ","m","a","r","k","e","t">>,
                       <<"e","l","e","c","t","r","i","c","i","t","y"," ","m","a","r","k","e","t">>, <<"p","o","w","e","r"," ","m","a","r","k","e","t">>, <<"p","e","a","k"," ","l","o","a","d"," ","p","r","i","c","i","n","g">>,
                       <<"c","a","r","b","o","n"," ","p","r","i","c","i","n","g">>, <<"e","m","i","s","s","i","o","n","s"," ","t","r","a","d","i","n","g">>, <<"r","e","n","e","w","a","b","l","e"," ","i","n","t","e","g","r","a","t","i","o","n">> >>,
      secondary |-> << <<"v","e","r","t","i","c","a","l"," ","i","n","t","e","g","r","a","t","i","o","n">>, <<"p","r","i","c","e"," ","r","e","g","u","l","a","t","i","o","n">>, <<"r","e","a","l"," ","o","p","t","i","o","n","s">>,
                       <<"m","a","r","k","e","t"," ","p","o","w","e","r">>, <<"w","e","l","f","a","r","e"," ","e","c","o","n","o","m","i","c","s">>, <<"c","o","n","s","u","m","e","r"," ","c","h","o","i","c","e">> >>,
      tertiary  |-> << <<"g","a","m","e"," ","t","h","e","o","r","y">>, <<"c","o","n","t","r","a","c","t"," ","t","h","e","o","r","y">>, <<"e","n","e","r","g","y"," ","p","o","l","i","c","y">> >>,
      exclude   |-> << <<"m","a","c","h","i","n","e"," ","l","e","a","r","n","i","n","g">>, <<"d","e","e","p"," ","l","e","a","r","n","i","n","g">>, <<"n","e","u","r","a","l"," ","n","e","t","w","o","r","k">>,
                       <<"c","r","y","p","t","o","c","u","r","r","e","n","c","y">>, <<"b","l","o","c","k","c","h","a","i","n">> >> ]

\* a keywords_config handed to RelevanceScorer.__init__ (or loaded from
\* config/keywords.yaml): sixteen primary keywords, enough to pass raw 45
LetterKeywords ==
    [ primary   |-> << <<"a">>, <<"b">>, <<"c">>, <<"d">>, <<"e">>, <<"f">>, <<"g">>, <<"h">>,
                       <<"i">>, <<"j">>, <<"k">>, <<"l">>, <<"m">>, <<"n">>, <<"o">>, <<"p">> >>,
      secondary |-> << <<"t","h","e","o","r","y">> >>,
      tertiary  |-> << <<"s","c","h","e","m","e","s">> >>,
      exclude   |-> << <<"d","e","e","p"," ","l","e","a","r","n","i","n","g">> >> ]

KeywordConfigs == { FallbackKeywords, LetterKeywords }

\* the order in which score_paper walks self.patterns
Categories == << "primary", "secondary", "tertiary", "exclude" >>

\* weights with the sign of the tertiary weight wrong
WeightTertiaryNegative(category) ==
    CASE category = "primary"   -> 3
      [] category = "secondary" -> 2
      [] category = "tertiary"  -> -1
      [] category = "exclude"   -> -10

\* RelevanceScorer.weights
Weight(category) ==
    CASE category = "primary"   -> 3
      [] category = "secondary" -> 2
      [] category = "tertiary"  -> 1
      [] category = "exclude"   -> -10

-----------------------------------------------------------------------------
(* Paper objects.  Catalogue lists the records the source clients can hand  *)
(* to the pipeline; a paper object is identified by its index.              *)

CoreCatalogue ==
    << \* test_scorer's first mock paper
       [ source |-> <<"a","r","x","i","v">>, source_id |-> <<"2","4","0","1",".","0","0","0","0","1">>, url |-> <<"h","t","t","p","s",":","/","/","a","r","x","i","v",".","o","r","g","/","a","b","s","/","2","4","0","1",".","0","0","0","0","1">>,
         title |-> <<"M","e","c","h","a","n","i","s","m"," ","D","e","s","i","g","n"," ","f","o","r"," ","C","a","p","a","c","i","t","y"," ","M","a","r","k","e","t","s"," ","i","n"," ","E","l","e","c","t","r","i","c","i","t","y"," ","S","y","s","t","e","m","s">>,
         abstract |-> <<"W","e"," ","s","t","u","d","y"," ","t","h","e"," ","o","p","t","i","m","a","l"," ","d","e","s","i","g","n"," ","o","f"," ","c","a","p","a","c","i","t","y"," ","m","e","c","h","a","n","i","s","m","s"," ","f","o","r"," ","e","n","s","u","r","i","n","g"," ","s","e","c","u","r","i","t","y"," ","o","f"," ","s","u","p","p","l","y"," ","i","n"," ","p","o","w","e","r"," ","m","a","r","k","e","t","s",".">> ],
       \* test_scorer's second mock paper
       [ source |-> <<"a","r","x","i","v">>, source_id |-> <<"2","4","0","1",".","0","0","0","0","2">>, url |-> <<"h","t","t","p","s",":","/","/","a","r","x","i","v",".","o","r","g","/","a","b","s","/","2","4","0","1",".","0","0","0","0","2">>,
         title |-> <<"D","e","e","p"," ","L","e","a","r","n","i","n","g"," ","f","o","r"," ","I","m","a","g","e"," ","R","e","c","o","g","n","i","t","i","o","n">>,
         abstract |-> <<"W","e"," ","p","r","e","s","e","n","t"," ","a"," ","n","e","u","r","a","l"," ","n","e","t","w","o","r","k"," ","a","r","c","h","i","t","e","c","t","u","r","e"," ","f","o","r"," ","c","o","m","p","u","t","e","r"," ","v","i","s","i","o","n"," ","t","a","s","k","s",".">> ],
       \* test_scorer's third mock paper
       [ source |-> <<"o","p","e","n","a","l","e","x">>, source_id |-> <<"W","1">>, url |-> <<"h","t","t","p","s",":","/","/","o","p","e","n","a","l","e","x",".","o","r","g","/","W","1">>,
         title |-> <<"C","a","r","b","o","n"," ","P","r","i","c","i","n","g"," ","a","n","d"," ","E","m","i","s","s","i","o","n","s"," ","T","r","a","d","i","n","g"," ","S","c","h","e","m","e","s">>,
         abstract |-> <<"T","h","i","s"," ","p","a","p","e","r"," ","a","n","a","l","y","z","e","s"," ","t","h","e"," ","w","e","l","f","a","r","e"," ","e","f","f","e","c","t","s"," ","o","f"," ","c","a","r","b","o","n"," ","m","a","r","k","e","t","s"," ","a","n","d"," ","t","h","e","i","r"," ","i","m","p","a","c","t"," ","o","n"," ","r","e","n","e","w","a","b","l","e"," ","i","n","t","e","g","r","a","t","i","o","n",".">> ],
       \* same (source, source_id) as the third paper
       [ source |-> <<"o","p","e","n","a","l","e","x">>, source_id |-> <<"W","1">>, url |-> <<"h","t","t","p","s",":","/","/","o","p","e","n","a","l","e","x",".","o","r","g","/","W","1">>,
         title |-> <<"A","u","c","t","i","o","n"," ","T","h","e","o","r","y">>,
         abstract |-> <<"a"," ","b"," ","c"," ","d"," ","e"," ","f"," ","g"," ","h"," ","i"," ","j"," ","k"," ","l"," ","m"," ","n"," ","o"," ","p">> ],
       [ source |-> <<"n","b","e","r">>, source_id |-> <<"w","1">>, url |-> <<"h","t","t","p","s",":","/","/","w","w","w",".","n","b","e","r",".","o","r","g","/","p","a","p","e","r","s","/","w","1">>,
         title |-> <<"G","a","m","e"," ","T","h","e","o","r","y"," ","a","n","d"," ","C","o","n","t","r","a","c","t"," ","T","h","e","o","r","y">>,
         abstract |-> <<>> ],
       [ source |-> <<"n","b","e","r">>, source_id |-> <<"w","2">>, url |-> <<"h","t","t","p","s",":","/","/","w","w","w",".","n","b","e","r",".","o","r","g","/","p","a","p","e","r","s","/","w","2">>,
         title |-> <<"M","a","r","k","e","t"," ","P","o","w","e","r",","," ","G","a","m","e"," ","T","h","e","o","r","y">>,
         abstract |-> <<"E","n","e","r","g","y"," ","p","o","l","i","c","y",".">> ],
       \* records no source client builds: the doi.org and plain-url branches
       [ source |-> <<"c","r","o","s","s","r","e","f">>, source_id |-> <<"1","0",".","1","/","x">>, url |-> <<"h","t","t","p","s",":","/","/","d","o","i",".","o","r","g","/","1","0",".","1","/","x">>,
         title |-> <<"M","a","r","k","e","t"," ","P","o","w","e","r">>,
         abstract |-> <<>> ],
       [ source |-> <<"w","e","b">>, source_id |-> <<"p">>, url |-> <<>>,
         title |-> <<"B","l","o","c","k","c","h","a","i","n">>,
         abstract |-> <<>> ],
       \* Scenario C: the title of the fourth record, from another source, in
       \* another case and with surrounding whitespace
       [ source |-> <<"n","b","e","r">>, source_id |-> <<"w","3">>, url |-> <<"h","t","t","p","s",":","/","/","w","w","w",".","n","b","e","r",".","o","r","g","/","p","a","p","e","r","s","/","w","3">>,
         title |-> <<" ","A","U","C","T","I","O","N"," ","t","h","e","o","r","y"," "," ">>,
         abstract |-> <<>> ],
       \* three titles that agree on their first 100 characters once
       \* lower-cased and stripped
       [ source |-> <<"a","r","x","i","v">>, source_id |-> <<"2","4","0","1",".","0","0","0","0","3">>, url |-> <<"h","t","t","p","s",":","/","/","a","r","x","i","v",".","o","r","g","/","a","b","s","/","2","4","0","1",".","0","0","0","0","3">>,
         title |-> <<"N","o","t","e","s"," ","o","n"," ","t","h","e"," ","H","i","s","t","o","r","y"," ","o","f"," ","M","e","d","i","e","v","a","l"," ","C","a","t","h","e","d","r","a","l"," ","B","u","i","l","d","i","n","g"," ","a","n","d"," ","S","t","o","n","e"," ","M","a","s","o","n","r","y"," ","G","u","i","l","d","s"," ","i","n"," ","N","o","r","t","h","e","r","n"," ","E","u","r","o","p","e",","," ","V","o","l","u","m","e"," ","O","n","e">>,
         \* the first two sentences are longer than 300 characters together
         abstract |-> <<"T","h","e"," ","f","i","r","s","t"," ","s","e","n","t","e","n","c","e"," ","o","f"," ","t","h","i","s"," ","a","b","s","t","r","a","c","t"," ","r","u","n","s"," ","o","n"," ","f","o","r"," ","q","u","i","t","e"," ","s","o","m","e"," ","t","i","m","e"," ","w","i","t","h","o","u","t"," ","e","v","e","r"," ","r","e","a","c","h","i","n","g"," ","i","t","s"," ","p","o","i","n","t",","," ","l","i","s","t","i","n","g"," ","s","t","o","n","e","s",","," ","a","r","c","h","e","s",","," ","v","a","u","l","t","s",","," ","t","o","w","e","r","s",","," ","w","i","n","d","o","w","s",","," ","c","h","a","p","e","l","s",","," ","c","l","o","i","s","t","e","r","s"," ","a","n","d"," ","c","r","y","p","t","s"," ","a","t"," ","g","r","e","a","t"," ","l","e","n","g","t","h","."," ","T","h","e"," ","s","e","c","o","n","d"," ","s","e","n","t","e","n","c","e"," ","t","h","e","n"," ","c","o","n","t","i","n","u","e","s"," ","i","n"," ","t","h","e"," ","s","a","m","e"," ","m","a","n","n","e","r",","," ","n","a","m","i","n","g"," ","m","a","s","o","n","s",","," ","c","a","r","v","e","r","s",","," ","g","l","a","z","i","e","r","s",","," ","c","a","r","p","e","n","t","e","r","s",","," ","s","m","i","t","h","s"," ","a","n","d"," ","t","h","e","i","r"," ","g","u","i","l","d","s"," ","o","n","e"," ","a","f","t","e","r"," ","t","h","e"," ","o","t","h","e","r"," ","u","n","t","i","l"," ","t","h","e"," ","r","e","a","d","e","r"," ","h","a","s"," ","l","o","n","g"," ","l","o","s","t"," ","c","o","u","n","t"," ","o","f"," ","t","h","e","m","."," ","T","h","e"," ","t","h","i","r","d"," ","s","e","n","t","e","n","c","e"," ","i","s"," ","s","h","o","r","t",".">> ],
       [ source |-> <<"o","p","e","n","a","l","e","x">>, source_id |-> <<"W","2">>, url |-> <<"h","t","t","p","s",":","/","/","o","p","e","n","a","l","e","x",".","o","r","g","/","W","2">>,
         title |-> <<"N","o","t","e","s"," ","o","n"," ","t","h","e"," ","H","i","s","t","o","r","y"," ","o","f"," ","M","e","d","i","e","v","a","l"," ","C","a","t","h","e","d","r","a","l"," ","B","u","i","l","d","i","n","g"," ","a","n","d"," ","S","t","o","n","e"," ","M","a","s","o","n","r","y"," ","G","u","i","l","d","s"," ","i","n"," ","N","o","r","t","h","e","r","n"," ","E","u","r","o","p","e",","," ","V","o","l","u","m","e"," ","T","w","o">>,
         abstract |-> <<"F","i","r","s","t"," ","s","e","n","t","e","n","c","e","."," ","S","e","c","o","n","d"," ","s","e","n","t","e","n","c","e","."," ","T","h","i","r","d"," ","s","e","n","t","e","n","c","e",".">> ],
       [ source |-> <<"n","b","e","r">>, source_id |-> <<"w","4">>, url |-> <<"h","t","t","p","s",":","/","/","w","w","w",".","n","b","e","r",".","o","r","g","/","p","a","p","e","r","s","/","w","4">>,
         title |-> <<" "," ","N","O","T","E","S"," ","o","n"," ","t","h","e"," ","H","i","s","t","o","r","y"," ","o","f"," ","M","e","d","i","e","v","a","l"," ","C","a","t","h","e","d","r","a","l"," ","B","u","i","l","d","i","n","g"," ","a","n","d"," ","S","t","o","n","e"," ","M","a","s","o","n","r","y"," ","G","u","i","l","d","s"," ","i","n"," ","N","o","r","t","h","e","r","n"," ","E","u","r","o","p","e",","," ","V","o","l","."," ","3">>,
         \* the first two sentences are 300 characters long together
         abstract |-> <<"T","h","e"," ","f","i","r","s","t"," ","s","e","n","t","e","n","c","e"," ","o","f"," ","t","h","i","s"," ","o","t","h","e","r"," ","a","b","s","t","r","a","c","t"," ","i","s"," ","w","r","i","t","t","e","n"," ","s","o"," ","t","h","a","t"," ","t","h","e"," ","s","u","m","m","a","r","y"," ","h","a","s"," ","e","x","a","c","t","l","y"," ","t","h","r","e","e"," ","h","u","n","d","r","e","d"," ","c","h","a","r","a","c","t","e","r","s"," ","b","e","f","o","r","e"," ","t","h","e"," ","f","i","n","a","l"," ","f","u","l","l"," ","s","t","o","p"," ","i","s"," ","a","d","d","e","d"," ","t","o"," ","i","t","."," ","T","h","e"," ","s","e","c","o","n","d"," ","s","e","n","t","e","n","c","e"," ","o","n","l","y"," ","f","i","l","l","s"," ","u","p"," ","w","h","a","t"," ","t","h","e"," ","f","i","r","s","t"," ","s","e","n","t","e","n","c","e"," ","h","a","s"," ","l","e","f","t"," ","o","v","e","r"," ","o","f"," ","t","h","e"," ","t","h","r","e","e"," ","h","u","n","d","r","e","d"," ","c","h","a","r","a","c","t","e","r","s",","," ","n","o","t"," ","m","o","r","e"," ","a","n","d"," ","n","o","t"," ","o","n","e"," ","s","i","n","g","l","e"," ","c","h","a","r","a","c","t","e","r"," ","l","e","s","s","."," ","T","h","e","n"," ","c","o","m","e","s"," ","t","h","e"," ","t","h","i","r","d",".">> ] >>

\* number of further records, more than the max_papers of a daily run, that
\* a long digest is made of
BulkSize == 16

\* the n-th of these records: same keywords, its own title and identifier
BulkRecord(n) ==
    LET nn == << Digits[(n \div 10) + 1], Digits[(n % 10) + 1] >>
    IN  [ source |-> <<"a","r","x","i","v">>, source_id |-> <<"2","4","0","2",".","0","0","0">> \o nn,
          url |-> <<"h","t","t","p","s",":","/","/","a","r","x","i","v",".","o","r","g","/","a","b","s","/","2","4","0","2",".","0","0","0">> \o nn,
          title |-> <<"C","a","r","b","o","n"," ","P","r","i","c","i","n","g"," ","a","n","d"," ","E","m","i","s","s","i","o","n","s"," ","T","r","a","d","i","n","g"," ","i","n"," ","R","e","g","i","o","n"," ">> \o nn,
          abstract |-> <<"A"," ","s","t","u","d","y"," ","o","f"," ","t","h","e"," ","r","e","g","i","o","n","a","l"," ","m","a","r","k","e","t",".">> ]

Catalogue == CoreCatalogue \o [ n \in 1 .. BulkSize |-> BulkRecord(n) ]

PaperIds == DOMAIN Catalogue

\* the records the lists of the specifications below are drawn from
CorePapers == DOMAIN CoreCatalogue

\* the further records, in catalogue order
BulkList == [ n \in 1 .. BulkSize |-> Len(CoreCatalogue) + n ]

PaperTitled(t) == CHOOSE p \in PaperIds : Catalogue[p].title = t

\* the papers of Scenario A and Scenario B (test_scorer's mock papers)
ScenarioA == PaperTitled(<<"M","e","c","h","a","n","i","s","m"," ","D","e","s","i","g","n"," ","f","o","r"," ","C","a","p","a","c","i","t","y"," ","M","a","r","k","e","t","s"," ","i","n"," ","E","l","e","c","t","r","i","c","i","t","y"," ","S","y","s","t","e","m","s">>)

ScenarioB == PaperTitled(<<"D","e","e","p"," ","L","e","a","r","n","i","n","g"," ","f","o","r"," ","I","m","a","g","e"," ","R","e","c","o","g","n","i","t","i","o","n">>)

\* sequences of distinct paper objects, at most n long
RECURSIVE ListsOver(_, _)
ListsOver(S, n) ==
    IF n = 0 THEN { << >> }
    ELSE LET shorter == ListsOver(S, n - 1)
         IN  shorter \cup { Append(l, p) : l \in { x \in shorter : Len(x) = n - 1 },
                                           p \in S }

IndexIn(s, x) == CHOOSE i \in DOMAIN s : s[i] = x

DistinctLists(S, n) ==
    { l \in ListsOver(S, n) : \A i, j \in DOMAIN l : i # j => l[i] # l[j] }

\* the records in catalogue order
OrderedLists(S, n) ==
    { l \in DistinctLists(S, n) : \A i, j \in DOMAIN l : i < j => l[i] < l[j] }

-----------------------------------------------------------------------------
(* RelevanceScorer *)

\* true iff position p (between text[p-1] and text[p]) is a \b boundary
WordBoundary(text, p) ==
    LET before == p > 1 /\ text[p - 1] \in WordChars
        after  == p <= Len(text) /\ text[p] \in WordChars
    IN  before # after

\* a pattern without the closing \b
PatternSearchNoEndBoundary(keyword, text) ==
    \E i \in 1 .. (Len(text) - Len(keyword) + 1) :
        /\ WordBoundary(text, i)
        /\ \A j \in 1 .. Len(keyword) : LowerChar(text[i + j - 1]) = LowerChar(keyword[j])

\* pattern.search(text) for the pattern _compile_patterns builds:
\* \b + re.escape(keyword) + \b, re.IGNORECASE
PatternSearch(keyword, text) ==
    \E i \in 1 .. (Len(text) - Len(keyword) + 1) :
        /\ WordBoundary(text, i)
        /\ \A j \in 1 .. Len(keyword) : LowerChar(text[i + j - 1]) = LowerChar(keyword[j])
        /\ WordBoundary(text, i + Len(keyword))

\* f"{paper.title} {paper.abstract}"
ScoredText(p) == Catalogue[p].title \o <<" ">> \o Catalogue[p].abstract

\* the positions of text at which the pattern of keyword matches
Occurrences(keyword, text) ==
    { i \in 1 .. (Len(text) - Len(keyword) + 1) :
        /\ WordBoundary(text, i)
        /\ \A j \in 1 .. Len(keyword) : LowerChar(text[i + j - 1]) = LowerChar(keyword[j])
        /\ WordBoundary(text, i + Len(keyword)) }

\* a matching that lists a keyword once per occurrence (pattern.findall)
RECURSIVE PerOccurrenceFrom(_, _, _)
PerOccurrenceFrom(list, text, i) ==
    IF i > Len(list) THEN << >>
    ELSE [ n \in 1 .. Cardinality(Occurrences(list[i], text)) |-> list[i] ]
         \o PerOccurrenceFrom(list, text, i + 1)

CategoryMatchesPerOccurrence(kws, category, p) ==
    PerOccurrenceFrom(kws[category], ScoredText(p), 1)

\* the keywords of one category whose pattern matches, in configuration order
CategoryMatches(kws, category, p) ==
    SelectSeq(kws[category], LAMBDA k : PatternSearch(k, ScoredText(p)))

\* the raw weighted sum score_paper accumulates
RawScore(kws, p) ==
    LET n(category) == Len(CategoryMatches(kws, category, p))
    IN  Weight("primary") * n("primary") + Weight("secondary") * n("secondary")
        + Weight("tertiary") * n("tertiary") + Weight("exclude") * n("exclude")

\* the matched_keywords score_paper collects: only categories of positive weight
RECURSIVE MatchedFrom(_, _, _)
MatchedFrom(kws, p, c) ==
    IF c > Len(Categories) THEN << >>
    ELSE (IF Weight(Categories[c]) > 0
          THEN CategoryMatches(kws, Categories[c], p) ELSE << >>)
         \o MatchedFrom(kws, p, c + 1)

\* a normalization that forgets the upper clamp
NormalizeNoUpperClamp(raw) == Max(0, raw * 20)

\* min(100, max(0, (score / 45) * 100)), in ninths
Normalize(raw) == Min(100 * 9, Max(0, raw * 20))

\* score_paper: (normalized_score, matched_keywords)
score_paper(kws, p) == << Normalize(RawScore(kws, p)), MatchedFrom(kws, p, 1) >>


\* the call self.score_paper(paper), tabulated once per configuration and paper
ScoreOf == [ kws \in KeywordConfigs |-> [ p \in PaperIds |-> score_paper(kws, p) ] ]

\* the raw sum and the excluded matches behind each tabulated score
RawOf == [ kws \in KeywordConfigs |-> [ p \in PaperIds |-> RawScore(kws, p) ] ]

ExcludedOf == [ kws \in KeywordConfigs |->
                  [ p \in PaperIds |-> CategoryMatches(kws, "exclude", p) ] ]

\* `score >= min_score` with a strict comparison
PassesThresholdStrict(score, ms) == score > ms * 9

\* `score >= min_score`, the score in ninths
PassesThreshold(score, ms) == score >= ms * 9

\* list.sort(key=relevance_score, reverse=True): insertion after every element
\* whose key is not smaller, so equal keys keep their order
\* an insertion that puts a paper before the papers of equal score
RECURSIVE InsertSortedUnstable(_, _, _)
InsertSortedUnstable(s, x, key) ==
    IF s = << >> THEN << x >>
    ELSE IF key[Head(s)] > key[x]
         THEN << Head(s) >> \o InsertSortedUnstable(Tail(s), x, key)
         ELSE << x >> \o s

RECURSIVE InsertSorted(_, _, _)
InsertSorted(s, x, key) ==
    IF s = << >> THEN << x >>
    ELSE IF key[Head(s)] >= key[x]
         THEN << Head(s) >> \o InsertSorted(Tail(s), x, key)
         ELSE << x >> \o s

RECURSIVE SortByScore(_, _)
SortByScore(s, key) ==
    IF s = << >> THEN << >>
    ELSE InsertSorted(SortByScore(SubSeq(s, 1, Len(s) - 1), key), s[Len(s)], key)

\* the papers the loop of filter_and_score_papers appends to scored_papers
Retained(kws, list, ms) ==
    SelectSeq(list, LAMBDA p : PassesThreshold(ScoreOf[kws][p][1], ms))

\* a loop that assigns relevance_score before it compares with min_score
ScoresAfterAll(kws, list, ms, old) ==
    [ p \in PaperIds |-> IF p \in Range(list) THEN ScoreOf[kws][p][1] ELSE old[p] ]

\* Paper.relevance_score after the loop: set on retained papers only
ScoresAfter(kws, list, ms, old) ==
    LET kept == Range(Retained(kws, list, ms))
    IN  [ p \in PaperIds |-> IF p \in kept THEN ScoreOf[kws][p][1] ELSE old[p] ]

\* Paper.matched_keywords after the loop: set on retained papers only
KeywordsAfter(kws, list, ms, old) ==
    LET kept == Range(Retained(kws, list, ms))
    IN  [ p \in PaperIds |-> IF p \in kept THEN ScoreOf[kws][p][2] ELSE old[p] ]

\* the list filter_and_score_papers returns
filter_and_score_papers(kws, list, ms, old) ==
    SortByScore(Retained(kws, list, ms), ScoresAfter(kws, list, ms, old))

\* what score_paper returned for each paper of the list (<<0, <<>>>>: not scored)
ScoreCalls(kws, list, old) ==
    [ p \in PaperIds |-> IF p \in Range(list) THEN ScoreOf[kws][p] ELSE old[p] ]

-----------------------------------------------------------------------------
(* PaperValidator *)

\* `sub in text`
Contains(text, sub) ==
    \E i \in 1 .. (Len(text) - Len(sub) + 1) :
        \A j \in 1 .. Len(sub) : text[i + j - 1] = sub[j]

\* text.replace(old, ""): every occurrence removed, left to right
RECURSIVE RemoveAll(_, _)
RemoveAll(text, old) ==
    LET hits == { k \in 1 .. (Len(text) - Len(old) + 1) :
                    SubSeq(text, k, k + Len(old) - 1) = old }
        at   == CHOOSE k \in hits : \A m \in hits : k <= m
    IN  IF hits = {} \/ text = << >> THEN text
        ELSE SubSeq(text, 1, at - 1)
             \o RemoveAll(SubSeq(text, at + Len(old), Len(text)), old)

\* cache_key = f"{paper.source}:{paper.source_id}"
CacheKey(p) == Catalogue[p].source \o <<":">> \o Catalogue[p].source_id

\* the check validate_paper dispatches to
CheckOf(p) ==
    CASE Catalogue[p].source = <<"a","r","x","i","v">>    -> "arxiv"
      [] Catalogue[p].source = <<"o","p","e","n","a","l","e","x">> -> "openalex"
      [] Catalogue[p].source = <<"n","b","e","r">>     -> "nber"
      [] OTHER -> IF Catalogue[p].url # << >> /\ Contains(Catalogue[p].url, <<"d","o","i",".","o","r","g">>)
                  THEN "doi" ELSE "url"

\* the argument the check receives
CheckArgument(p) ==
    CASE CheckOf(p) = "arxiv"    -> Catalogue[p].source_id
      [] CheckOf(p) = "openalex" -> Catalogue[p].source_id
      [] CheckOf(p) = "nber"     -> Catalogue[p].url
      [] CheckOf(p) = "doi"      -> RemoveAll(Catalogue[p].url, <<"h","t","t","p","s",":","/","/","d","o","i",".","o","r","g","/">>)
      [] CheckOf(p) = "url"      -> Catalogue[p].url

\* `if not <argument>: return (False, "No ... provided")`: no request is sent
SendsRequest(p) == CheckArgument(p) # << >>

\* what a request can come to: a status code, requests.Timeout, another exception
Responses == { "200", "404", "timeout", "error" }

\* how a task's check went: not run yet, answered from the cache, refused
\* for a missing argument, or one of the responses
TaskOutcomes == { "unchecked", "cached", "no_argument" } \cup Responses

\* a check that takes every response for a success
VerdictAnyResponseValid(check, o) ==
    IF o \in { "200", "404" }
    THEN [ is_valid |-> TRUE, reason |-> << check, "validated" >> ]
    ELSE [ is_valid |-> FALSE, reason |-> << check, "validation error", o >> ]

\* the (is_valid, reason) a check returns: _validate_doi, _validate_arxiv,
\* _validate_openalex, _validate_nber, _validate_url
Verdict(check, o) ==
    CASE o = "no_argument" -> [ is_valid |-> FALSE, reason |-> << check, "not provided" >> ]
      [] o = "200"         -> [ is_valid |-> TRUE,  reason |-> << check, "validated" >> ]
      [] o = "404"         -> [ is_valid |-> FALSE, reason |-> << check, "not found (status 404)" >> ]
      [] o = "timeout" /\ check = "doi"
                           -> [ is_valid |-> FALSE, reason |-> << check, "validation timeout" >> ]
      [] OTHER             -> [ is_valid |-> FALSE, reason |-> << check, "validation error", o >> ]

\* a cache that remembers only the papers found valid
CacheWriteOnlyValid(c, key, v) ==
    IF v.is_valid
    THEN [ k \in DOMAIN c \cup { key } |-> IF k = key THEN v ELSE c[k] ]
    ELSE c

\* self._cache[cache_key] = result
CacheWrite(c, key, v) ==
    [ k \in DOMAIN c \cup { key } |-> IF k = key THEN v ELSE c[k] ]

\* a loop that appends the paper whatever its verdict
CollectAlways(validated, p, r) == Append(validated, p)

\* the loop body of validate_papers_batch on validated_papers.  The checks
\* turn every exception into an invalid verdict, so future.result() never
\* raises and the loop's own except branch is not reached.
CollectValid(validated, p, r) ==
    IF r.is_valid THEN Append(validated, p) ELSE validated

\* the loop body of validate_papers_batch on invalid_count
CountInvalid(count, r) ==
    IF r.is_valid THEN count ELSE count + 1

\* max_workers of validate_papers_batch (its default)
DefaultMaxWorkers == 5

Tasks == DOMAIN batch

\* the result slot of a future that has not finished
NoVerdict == [ is_valid |-> FALSE, reason |-> << "pending" >> ]

Running == { i \in Tasks : future[i] = "running" }

\* validate_papers_batch up to the end of the dict comprehension: one task
\* submitted per paper.  A worker may start a task before the later ones
\* are submitted; no task reads what submit writes, so the submissions
\* are taken together.
SubmitAll(list, workers) ==
    /\ batch' = list
    /\ max_workers' = workers
    /\ future' = [ i \in DOMAIN list |-> "pending" ]
    /\ fresult' = [ i \in DOMAIN list |-> NoVerdict ]
    /\ outcome' = [ i \in DOMAIN list |-> "unchecked" ]
    /\ yielded' = {}
    /\ validated_papers' = << >>
    /\ invalid_count' = 0
    /\ calls' = calls + 1

\* what the batch leaves untouched outside the validator
UnchangedByValidator ==
    UNCHANGED << period, keywords, today, available, runs, collectorVars, papers, scorer_in, min_score, last_score,
                 relevance_score, matched_keywords, summary, has_client,
                 has_sender, local_saves, summarize_calls, summarizer_in, max_papers_arg,
                 backend, digest_file, saved, html_file, email_attempts, send_call,
                 result, exit_code, unique >>

\* a worker thread takes the oldest pending task and runs validate_paper up
\* to the cache lookup: a hit returns the cached result at once
TaskStart(i) ==
    /\ pc = "validate"
    /\ future[i] = "pending"
    /\ \A j \in Tasks : j < i => future[j] # "pending"
    /\ Cardinality(Running) < max_workers
    /\ IF CacheKey(batch[i]) \in DOMAIN cache
       THEN /\ future' = [ future EXCEPT ![i] = "finished" ]
            /\ fresult' = [ fresult EXCEPT ![i] = cache[CacheKey(batch[i])] ]
            /\ outcome' = [ outcome EXCEPT ![i] = "cached" ]
       ELSE /\ future' = [ future EXCEPT ![i] = "running" ]
            /\ UNCHANGED << fresult, outcome >>
    /\ UNCHANGED << pc, cache, batch, max_workers, yielded, validated_papers,
                    invalid_count, calls, first_verdict >>
    /\ UnchangedByValidator

\* the rest of validate_paper after a cache miss: the check, with whatever
\* the network answers, then the cache write and the return
TaskFinish(i) ==
    /\ pc = "validate"
    /\ future[i] = "running"
    /\ \E o \in (IF SendsRequest(batch[i]) THEN Responses ELSE { "no_argument" }) :
          LET v == Verdict(CheckOf(batch[i]), o)
          IN  /\ cache' = CacheWrite(cache, CacheKey(batch[i]), v)
              /\ fresult' = [ fresult EXCEPT ![i] = v ]
              /\ outcome' = [ outcome EXCEPT ![i] = o ]
    /\ future' = [ future EXCEPT ![i] = "finished" ]
    /\ UNCHANGED << pc, batch, max_workers, yielded, validated_papers,
                    invalid_count, calls, first_verdict >>
    /\ UnchangedByValidator

\* one turn of `for future in as_completed(future_to_paper)`
AsCompleted(i) ==
    /\ pc = "validate"
    /\ future[i] = "finished"
    /\ i \notin yielded
    /\ yielded' = yielded \cup { i }
    /\ validated_papers' = CollectValid(validated_papers, batch[i], fresult[i])
    /\ invalid_count' = CountInvalid(invalid_count, fresult[i])
    /\ UNCHANGED << pc, cache, batch, max_workers, future, fresult, outcome,
                    calls, first_verdict >>
    /\ UnchangedByValidator

\* a loop that stops at the first completed future
FirstCollected == yielded # {}

\* as_completed is exhausted: every future was handed to the loop
AllCollected == yielded = Tasks

-----------------------------------------------------------------------------
(* Initial values of the objects *)

\* Paper(...): relevance_score 0.0, summary "", no matched_keywords yet
InitPapers ==
    /\ relevance_score = [ p \in PaperIds |-> 0 ]
    /\ matched_keywords = [ p \in PaperIds |-> << >> ]
    /\ summary = [ p \in PaperIds |-> << >> ]
    /\ last_score = [ p \in PaperIds |-> << 0, << >> >> ]

\* PaperValidator.__init__ and no batch in progress
InitValidator ==
    /\ cache = << >>
    /\ batch = << >>
    /\ max_workers = 0
    /\ future = << >>
    /\ fresult = << >>
    /\ outcome = << >>
    /\ yielded = {}
    /\ validated_papers = << >>
    /\ invalid_count = 0
    /\ calls = 0
    /\ first_verdict = << >>

\* the first process, on the first day
InitClock ==
    /\ today = 1
    /\ runs = 0

\* no sub-request made yet
NoSub == [ kinds |-> << >>, tries |-> 0, data |-> "none", count |-> 0 ]

\* no fetch_recent in progress
InitCollectors ==
    /\ client = "none"
    /\ subrequests = 0
    /\ request = 0
    /\ all_papers = << >>
    /\ last_sub = NoSub
    /\ fetched = << >>

\* send_digest has not been called
NoSend == [ response |-> "none", returned |-> "not called" ]

\* nothing written, nothing sent, nothing returned
InitOutputs ==
    /\ summarize_calls = 0
    /\ summarizer_in = << >>
    /\ max_papers_arg = 0
    /\ backend = [ p \in PaperIds |-> "not called" ]
    /\ local_saves = 0
    /\ digest_file = << >>
    /\ saved = << >>
    /\ html_file = << >>
    /\ email_attempts = 0
    /\ send_call = NoSend
    /\ result = << >>
    /\ exit_code = -1
    /\ unique = << >>

-----------------------------------------------------------------------------
(* ResearchDigest: collection and deduplication *)

\* the characters str.strip() removes
WhiteSpace == { " ", "\t", "\n", "\r" }

\* str.lower()
Lower(text) == [ i \in DOMAIN text |-> LowerChar(text[i]) ]

\* str.strip()
RECURSIVE StripLeft(_)
StripLeft(text) ==
    IF text # << >> /\ Head(text) \in WhiteSpace THEN StripLeft(Tail(text)) ELSE text

RECURSIVE StripRight(_)
StripRight(text) ==
    IF text # << >> /\ text[Len(text)] \in WhiteSpace
    THEN StripRight(SubSeq(text, 1, Len(text) - 1)) ELSE text

Strip(text) == StripRight(StripLeft(text))

\* the slice text[:n]
Take(text, n) == SubSeq(text, 1, Min(n, Len(text)))

\* number of title characters the deduplication key keeps
TitleKeyLength == 100

\* a key that cuts the title before stripping it
TitleKeyCutFirst(p) == Strip(Take(Lower(Catalogue[p].title), TitleKeyLength))

\* title_key = paper.title.lower().strip()[:100]
TitleKey(p) == Take(Strip(Lower(Catalogue[p].title)), TitleKeyLength)

TitleKeyOf == [ p \in PaperIds |-> TitleKey(p) ]

\* a loop that puts each new paper in front of `unique`
RECURSIVE DedupFromPrepend(_, _, _)
DedupFromPrepend(list, i, seen_titles) ==
    IF i > Len(list) THEN << >>
    ELSE IF TitleKeyOf[list[i]] \notin seen_titles
         THEN DedupFromPrepend(list, i + 1, seen_titles \cup { TitleKeyOf[list[i]] })
                 \o << list[i] >>
         ELSE DedupFromPrepend(list, i + 1, seen_titles)

\* _deduplicate_papers: the first paper of each title key, in input order
RECURSIVE DedupFrom(_, _, _)
DedupFrom(list, i, seen_titles) ==
    IF i > Len(list) THEN << >>
    ELSE IF TitleKeyOf[list[i]] \notin seen_titles
         THEN << list[i] >> \o DedupFrom(list, i + 1, seen_titles \cup { TitleKeyOf[list[i]] })
         ELSE DedupFrom(list, i + 1, seen_titles)

deduplicate_papers(list) == DedupFrom(list, 1, {})

\* the records the three source clients build
CollectorPapers ==
    { p \in CorePapers : Catalogue[p].source \in { <<"a","r","x","i","v">>, <<"o","p","e","n","a","l","e","x">>, <<"n","b","e","r">> } }

-----------------------------------------------------------------------------
(* PaperSummarizer *)

\* index of the first occurrence of sep in text at or after i, 0 if none
FindFrom(text, sep, i) ==
    LET hits == { k \in i .. (Len(text) - Len(sep) + 1) :
                    SubSeq(text, k, k + Len(sep) - 1) = sep }
    IN  IF hits = {} THEN 0 ELSE CHOOSE k \in hits : \A m \in hits : k <= m

\* str.split(sep)
RECURSIVE Split(_, _)
Split(text, sep) ==
    LET at == FindFrom(text, sep, 1)
    IN  IF at = 0 THEN << text >>
        ELSE << SubSeq(text, 1, at - 1) >>
             \o Split(SubSeq(text, at + Len(sep), Len(text)), sep)

\* sep.join(parts)
RECURSIVE Join(_, _)
Join(parts, sep) ==
    IF parts = << >> THEN << >>
    ELSE IF Len(parts) = 1 THEN parts[1]
         ELSE parts[1] \o sep \o Join(Tail(parts), sep)

\* longest summary _simple_summary leaves uncut
SummaryLimit == 300

\* length of the prefix _simple_summary keeps when it cuts
SummaryCut == 297

\* _simple_summary
simple_summary(p) ==
    IF Catalogue[p].abstract = << >> THEN <<"N","o"," ","a","b","s","t","r","a","c","t"," ","a","v","a","i","l","a","b","l","e",".">>
    ELSE LET sentences == Split(Catalogue[p].abstract, <<"."," ">>)
             joined    == Join(Take(sentences, 2), <<"."," ">>)
             cut       == IF Len(joined) > SummaryLimit
                          THEN SubSeq(joined, 1, SummaryCut) \o <<".",".",".">>
                          ELSE joined
         IN  cut \o <<".">>

SimpleSummaryOf == [ p \in PaperIds |-> simple_summary(p) ]

\* response.content[0].text.strip() of a backend call that succeeded
BackendText == <<"S","u","m","m","a","r","y"," ","f","r","o","m"," ","t","h","e"," ","b","a","c","k","e","n","d">>

\* the ways a backend call fails: the request raises, the API answers with
\* an error, the response has no content[0].text
BackendFailures == { "network error", "api error", "malformed response" }

\* a summarize_paper that returns the backend's text whenever a client is set
summarize_paper_unguarded(p, backend_ok) ==
    IF has_client THEN BackendText ELSE SimpleSummaryOf[p]

\* summarize_paper: the backend's text when the client is set and the call
\* succeeds, the simple summary otherwise
summarize_paper(p, backend_ok) ==
    IF has_client /\ backend_ok THEN BackendText ELSE SimpleSummaryOf[p]

\* a batch that walks the whole list
SummarizedAll(list, max_papers) == list

\* papers[:max_papers], the papers summarize_papers_batch walks
Summarized(list, max_papers) == Take(list, max_papers)

\* Paper.summary after summarize_papers_batch(list, max_papers); ok holds the
\* positions whose backend call succeeds
SummariesAfter(list, max_papers, ok, old) ==
    LET first == Summarized(list, max_papers)
    IN  [ p \in PaperIds |->
            IF p \in Range(first)
            THEN summarize_paper(p, IndexIn(first, p) \in ok) ELSE old[p] ]

\* how the summarize_paper calls of a batch went; how holds, per position,
\* the way the backend call went
BackendAfter(list, max_papers, how, old) ==
    LET first == Summarized(list, max_papers)
    IN  [ p \in PaperIds |->
            IF p \in Range(first)
            THEN IF has_client THEN how[IndexIn(first, p)] ELSE "no client"
            ELSE old[p] ]

-----------------------------------------------------------------------------
(* The source clients: ArxivCollector, OpenAlexCollector, NBERCollector    *)

Clients == { "arxiv", "openalex", "nber" }

\* What a remote entry carries, as far as the clients read it: its title
\* and its link (the href of an arXiv entry's link, the id of an OpenAlex
\* work, the link of an NBER item; empty when the element is missing).
ArxivEntries ==
    << [ title |-> <<"A","u","c","t","i","o","n","s">>, link |-> <<"h","t","t","p",":","/","/","a","r","x","i","v",".","o","r","g","/","a","b","s","/","2","4","0","1",".","0","0","0","0","1","v","1">> ],
      [ title |-> <<" ","M","a","r","k","e","t","s"," ">>, link |-> <<"h","t","t","p",":","/","/","a","r","x","i","v",".","o","r","g","/","a","b","s","/","2","4","0","1",".","0","0","0","0","2","v","1">> ],
      [ title |-> <<"N","o"," ","l","i","n","k">>, link |-> <<>> ],
      [ title |-> <<>>, link |-> <<"h","t","t","p",":","/","/","a","r","x","i","v",".","o","r","g","/","a","b","s","/","2","4","0","1",".","0","0","0","0","3","v","1">> ] >>

OpenAlexEntries ==
    << [ title |-> <<"A","u","c","t","i","o","n","s">>, link |-> <<"h","t","t","p","s",":","/","/","o","p","e","n","a","l","e","x",".","o","r","g","/","W","1">> ],
      [ title |-> <<"M","a","r","k","e","t","s">>, link |-> <<"h","t","t","p","s",":","/","/","o","p","e","n","a","l","e","x",".","o","r","g","/","W","2">> ],
      [ title |-> <<"N","o"," ","i","d">>, link |-> <<>> ],
      [ title |-> <<>>, link |-> <<"h","t","t","p","s",":","/","/","o","p","e","n","a","l","e","x",".","o","r","g","/","W","3">> ] >>

NberEntries ==
    << [ title |-> <<"A","u","c","t","i","o","n","s">>, link |-> <<"h","t","t","p","s",":","/","/","w","w","w",".","n","b","e","r",".","o","r","g","/","p","a","p","e","r","s","/","w","3","1","0","0","1">> ],
      [ title |-> <<"A","u","c","t","i","o","n","s",","," ","r","e","v","i","s","e","d">>, link |-> <<"h","t","t","p","s",":","/","/","w","w","w",".","n","b","e","r",".","o","r","g","/","p","a","p","e","r","s","/","w","3","1","0","0","1","#","f","r","o","m","r","s","s">> ],
      [ title |-> <<"N","o"," ","l","i","n","k">>, link |-> <<>> ],
      [ title |-> <<>>, link |-> <<"h","t","t","p","s",":","/","/","w","w","w",".","n","b","e","r",".","o","r","g","/","p","a","p","e","r","s","/","w","3","1","0","0","2">> ] >>

\* the entries of the feed of client c, in the order of the feed
Feed(c) ==
    CASE c = "arxiv"    -> ArxivEntries
      [] c = "openalex" -> OpenAlexEntries
      [] c = "nber"     -> NberEntries

Entries(c) == Range(Feed(c))

\* text.replace(a, b) for single characters
ReplaceChar(text, a, b) == [ i \in DOMAIN text |-> IF text[i] = a THEN b ELSE text[i] ]

\* the longest run of digits of text that starts at position i
RECURSIVE DigitsFrom(_, _)
DigitsFrom(text, i) ==
    IF i <= Len(text) /\ text[i] \in Range(Digits)
    THEN << text[i] >> \o DigitsFrom(text, i + 1) ELSE << >>

\* re.search(r'/papers/w(\d+)', url): f"w{match.group(1)}", empty without match
NberId(url) ==
    LET prefix == <<"/","p","a","p","e","r","s","/","w">>
        at == { i \in 1 .. Len(url) :
                  /\ i + Len(prefix) <= Len(url)
                  /\ SubSeq(url, i, i + Len(prefix) - 1) = prefix
                  /\ url[i + Len(prefix)] \in Range(Digits) }
    IN  IF at = {} THEN << >>
        ELSE LET first == CHOOSE i \in at : \A j \in at : i <= j
             IN  <<"w">> \o DigitsFrom(url, first + Len(prefix))

\* ArxivCollector._parse_entry: the Paper of an entry, None (no record)
\* without title or without arxiv_id
arxiv_parse_entry(e) ==
    LET title    == ReplaceChar(Strip(e.title), "\n", " ")
        has_abs  == Contains(e.link, <<"a","b","s">>)
        url      == IF has_abs THEN e.link ELSE << >>
        parts    == Split(e.link, <<"/","a","b","s","/">>)
        arxiv_id == IF has_abs THEN parts[Len(parts)] ELSE << >>
    IN  IF title = << >> \/ arxiv_id = << >> THEN << >>
        ELSE << [ source |-> <<"a","r","x","i","v">>, source_id |-> arxiv_id, title |-> title, url |-> url ] >>

\* OpenAlexCollector._parse_work: None without title; the id is not looked at
openalex_parse_work(e) ==
    IF e.title = << >> THEN << >>
    ELSE << [ source |-> <<"o","p","e","n","a","l","e","x">>,
              source_id |-> RemoveAll(e.link, <<"h","t","t","p","s",":","/","/","o","p","e","n","a","l","e","x",".","o","r","g","/">>),
              title |-> e.title, url |-> e.link ] >>

\* NBERCollector._parse_item: None without title; source_id = nber_id or url
nber_parse_item(e) ==
    LET title   == Strip(e.title)
        url     == Strip(e.link)
        nber_id == IF url # << >> THEN NberId(url) ELSE << >>
    IN  IF title = << >> THEN << >>
        ELSE << [ source |-> <<"n","b","e","r">>,
                  source_id |-> IF nber_id # << >> THEN nber_id ELSE url,
                  title |-> title, url |-> url ] >>

\* what each client makes of each entry
ParsedOf ==
    [ c \in Clients |->
        [ e \in Entries(c) |->
            CASE c = "arxiv"    -> arxiv_parse_entry(e)
              [] c = "openalex" -> openalex_parse_work(e)
              [] c = "nber"     -> nber_parse_item(e) ] ]

\* _parse_response / the loops over data["results"] / _parse_rss: the
\* records of the entries of one response, in order
RECURSIVE ParseAll(_, _)
ParseAll(c, entries) ==
    IF entries = << >> THEN << >>
    ELSE ParsedOf[c][Head(entries)] \o ParseAll(c, Tail(entries))

\* most entries in one response
MaxEntries == 2

\* most categories an ArxivCollector is built with
MaxCategories == 2

\* most journals an OpenAlexCollector is built with
MaxJournals == 1

\* concepts[:3]: the concept sub-requests of OpenAlexCollector
ConceptRequests == 3

\* OpenAlexCollector.MAX_RETRIES
MAX_RETRIES == 2

\* sequences of at most n elements of S
\* the elements of feed at the positions in X, in the order of the feed
RECURSIVE Selected(_, _)
Selected(feed, X) ==
    IF X = {} THEN << >>
    ELSE LET first == CHOOSE i \in X : \A j \in X : i <= j
         IN  << feed[first] >> \o Selected(feed, X \ { first })

\* the bodies a request can bring: at most MaxEntries entries of the feed,
\* in its order
Bodies(c) ==
    { Selected(Feed(c), X) : X \in { Y \in SUBSET DOMAIN Feed(c) : Cardinality(Y) <= MaxEntries } }

\* what the remote end answers to one request: a body with entries, a
\* body that is not XML / JSON, a connection or status error, a timeout
RemoteResponses(c) ==
    { [ kind |-> k, entries |-> << >> ] : k \in { "malformed", "error", "timeout" } }
    \cup { [ kind |-> "ok", entries |-> l ] : l \in Bodies(c) }

\* `return None` after `tries` requests
NoData(tries) == [ kind |-> "None", entries |-> << >>, tries |-> tries ]

\* a _make_request that goes on to the next attempt after any failure
RECURSIVE make_request_retry_all(_, _)
make_request_retry_all(attempts, attempt) ==
    IF attempt > MAX_RETRIES \/ attempt > Len(attempts) THEN NoData(attempt - 1)
    ELSE IF attempts[attempt].kind = "ok"
         THEN [ kind |-> "ok", entries |-> attempts[attempt].entries, tries |-> attempt ]
         ELSE make_request_retry_all(attempts, attempt + 1)

\* OpenAlexCollector._make_request from the attempt-th turn of its loop
\* on: the answer of the first attempt that is not a timeout, within
\* MAX_RETRIES attempts, None otherwise; tries counts the requests sent
RECURSIVE make_request(_, _)
make_request(attempts, attempt) ==
    IF attempt > MAX_RETRIES \/ attempt > Len(attempts) THEN NoData(attempt - 1)
    ELSE CASE attempts[attempt].kind = "ok"
                -> [ kind |-> "ok", entries |-> attempts[attempt].entries, tries |-> attempt ]
           [] attempts[attempt].kind = "timeout" -> make_request(attempts, attempt + 1)
           [] OTHER                              -> NoData(attempt)

\* ArxivCollector._fetch_category: requests.RequestException is caught,
\* the ParseError of ET.fromstring is not
fetch_category(r) ==
    CASE r.kind = "ok"        -> [ raised |-> FALSE, papers |-> ParseAll("arxiv", r.entries),
                                   tries |-> 1, data |-> "ok" ]
      [] r.kind = "malformed" -> [ raised |-> TRUE, papers |-> << >>,
                                   tries |-> 1, data |-> "raised" ]
      [] OTHER                -> [ raised |-> FALSE, papers |-> << >>,
                                   tries |-> 1, data |-> "None" ]

\* one pass of the loop of _fetch_by_concepts / _fetch_from_journals
fetch_works(attempts) ==
    LET data == make_request(attempts, 1)
    IN  [ raised |-> FALSE,
          papers |-> IF data.kind = "ok" THEN ParseAll("openalex", data.entries) ELSE << >>,
          tries |-> data.tries, data |-> data.kind ]

\* NBERCollector.fetch_recent's request and _parse_rss
fetch_rss(r) ==
    [ raised |-> FALSE,
      papers |-> IF r.kind = "ok" THEN ParseAll("nber", r.entries) ELSE << >>,
      tries |-> 1, data |-> IF r.kind = "ok" THEN "ok" ELSE "None" ]

\* The answers the remote end holds for the requests of one sub-request:
\* one request for arXiv and NBER, up to MAX_RETRIES for OpenAlex.  An
\* answer that follows anything but a timeout is an error: _make_request
\* does not ask for it, and it brings nothing to a client that would.
AttemptsOf ==
    [ c \in Clients |->
        IF c = "openalex"
        THEN { f \in [ 1 .. MAX_RETRIES -> RemoteResponses(c) ] :
                 \A i \in 2 .. MAX_RETRIES :
                     f[i - 1].kind # "timeout" => f[i].kind = "error" }
        ELSE [ 1 .. 1 -> RemoteResponses(c) ] ]

\* the sub-request of client c, answered by attempts
SubRequest(c, attempts) ==
    CASE c = "arxiv"    -> fetch_category(attempts[1])
      [] c = "openalex" -> fetch_works(attempts)
      [] c = "nber"     -> fetch_rss(attempts[1])

\* fetch_recent's loop over all_papers: the first record of each source_id
RECURSIVE UniqueFrom(_, _, _)
UniqueFrom(list, i, seen_ids) ==
    IF i > Len(list) THEN << >>
    ELSE IF list[i].source_id \notin seen_ids
         THEN << list[i] >> \o UniqueFrom(list, i + 1, seen_ids \cup { list[i].source_id })
         ELSE UniqueFrom(list, i + 1, seen_ids)

\* what fetch_recent returns once its sub-requests are through: arXiv and
\* OpenAlex remove duplicate source_ids, NBER returns what _parse_rss built
FetchResult(c, list) ==
    IF c \in { "arxiv", "openalex" } THEN UniqueFrom(list, 1, {}) ELSE list

\* the sub-requests a client makes: one per category, three concepts and
\* one per journal, the one RSS feed
SubRequestCounts(c) ==
    CASE c = "arxiv"    -> 1 .. MaxCategories
      [] c = "openalex" -> { ConceptRequests + j : j \in 1 .. MaxJournals }
      [] c = "nber"     -> { 1 }

-----------------------------------------------------------------------------
(* ResearchDigest: the runs *)

\* longest list the source clients hand to a run in Spec
MaxCollected == 2

\* min_score of the daily and of the weekly run
DailyMinScore == 5

WeeklyMinScore == 10

\* max_papers of the daily and of the weekly run
DailyMaxPapers == 15

WeeklyMaxPapers == 30

\* Paper.to_dict(): asdict of the dataclass fields, the scorer's
\* matched_keywords attribute is not one of them
to_dict(p, scores, summaries) ==
    [ title |-> Catalogue[p].title, abstract |-> Catalogue[p].abstract,
      url |-> Catalogue[p].url, source |-> Catalogue[p].source,
      source_id |-> Catalogue[p].source_id,
      relevance_score |-> scores[p], summary |-> summaries[p] ]

\* f"{period}_digest_{datetime.now().strftime('%Y%m%d')}": the name
\* _save_digest and _save_html give their file, without the extension
FileName(per, day) == << per, day >>

\* open(filepath, 'w') and the write: the file is created or replaced
WriteFile(files, name, data) ==
    [ f \in DOMAIN files \cup { name } |-> IF f = name THEN data ELSE files[f] ]

\* datetime.now(): the day and, within the day, the process that asks
Now == << today, runs >>

\* a _save_digest that dumps the papers that went into the mail
DigestDataMailed(list, per, at, scores, summaries) ==
    [ generated_at |-> at, period |-> per, paper_count |-> Len(list),
      papers |-> [ i \in 1 .. Min(Len(list), DailyMaxPapers) |->
                     to_dict(list[i], scores, summaries) ] ]

\* the data _save_digest dumps
DigestData(list, per, at, scores, summaries) ==
    [ generated_at |-> at, period |-> per, paper_count |-> Len(list),
      papers |-> [ i \in DOMAIN list |-> to_dict(list[i], scores, summaries) ] ]

\* DigestFormatter.format_email_html(papers, intro, period)
format_email_html(list, per) == [ period |-> per, papers |-> list ]

\* what the delivery endpoint can answer to client.send(message)
SendResponses == { "202", "500", "error" }

\* `response.status_code in [200, 201, 202]`
AcceptedStatus == { "200", "201", "202" }

\* send_digest saves the html locally unless the mail was accepted
SavesLocally(sender, response) == ~ sender \/ response \notin AcceptedStatus

\* send_digest returns True exactly when the endpoint accepted the mail
SendReturns(sender, response) == sender /\ response \in AcceptedStatus

\* a send_digest without its try/except: the client's exception leaves it
SendRaisesUnguarded(sender, response) == sender /\ response = "error"

\* send_digest builds and sends the message inside try/except Exception,
\* and _save_locally catches what its own write raises: nothing leaves it
SendRaises(sender, response) == FALSE

\* an exit code that takes a run without relevant papers for a success
ExitCodeLenient(status) ==
    IF status \in { "success", "no_relevant_papers", "no_papers" } THEN 0 ELSE 1

\* sys.exit(0 if result["status"] == "success" else 1)
ExitCode(status) == IF status = "success" THEN 0 ELSE 1

InitRun ==
    /\ pc = "main"
    /\ period = "none"
    /\ keywords \in KeywordConfigs
    /\ papers = << >>
    /\ scorer_in = << >>
    /\ min_score = 0
    /\ has_client \in BOOLEAN
    /\ has_sender \in BOOLEAN
    /\ InitPapers
    /\ InitValidator
    /\ InitOutputs
    /\ InitClock
    /\ InitCollectors
    /\ available = CollectorPapers

\* a run returns without having scored, summarized, written or sent anything
ReturnEarly(status) ==
    /\ pc' = "exited"
    /\ result' = [ status |-> status, count |-> 0 ]
    /\ exit_code' = ExitCode(status)
    /\ UNCHANGED << keywords, today, available, runs, collectorVars, scorer_in, min_score, last_score, relevance_score,
                    matched_keywords, summary, has_client, has_sender, local_saves,
                    summarize_calls, summarizer_in, max_papers_arg,
                    backend, digest_file, saved, html_file, email_attempts, send_call >>

\* _collect_all_papers: what the three clients return, in the order arXiv,
\* OpenAlex, NBER, deduplicated
Collected == { deduplicate_papers(l) : l \in OrderedLists(available, MaxCollected) }

\* main() starts run_daily: steps 1 and up to the submissions of step 2
RunDailyCollect ==
    /\ pc = "main"
    /\ period' = "daily"
    /\ \E list \in Collected :
          /\ papers' = list
          /\ unique' = list
          /\ IF list = << >>
             THEN /\ ReturnEarly("no_papers")
                  /\ UNCHANGED << cache, batch, max_workers, future, fresult, outcome,
                                  yielded, validated_papers, invalid_count, calls,
                                  first_verdict >>
             ELSE /\ pc' = "validate"
                  /\ SubmitAll(list, DefaultMaxWorkers)
                  /\ UNCHANGED << keywords, today, available, runs, collectorVars, scorer_in, min_score, last_score,
                                  relevance_score, matched_keywords, summary, cache,
                                  first_verdict, has_client, has_sender, local_saves,
                                  summarize_calls, summarizer_in, max_papers_arg,
                                  backend, digest_file, saved, html_file,
                                  email_attempts, send_call, result, exit_code >>

\* main() starts run_weekly: the collection and, `if papers`, up to the
\* submissions of the validation
RunWeeklyCollect ==
    /\ pc = "main"
    /\ period' = "weekly"
    /\ \E list \in Collected :
          /\ papers' = list
          /\ unique' = list
          /\ IF list = << >>
             THEN /\ ReturnEarly("no_papers")
                  /\ UNCHANGED << cache, batch, max_workers, future, fresult, outcome,
                                  yielded, validated_papers, invalid_count, calls,
                                  first_verdict >>
             ELSE /\ pc' = "validate"
                  /\ SubmitAll(list, DefaultMaxWorkers)
                  /\ UNCHANGED << keywords, today, available, runs, collectorVars, scorer_in, min_score, last_score,
                                  relevance_score, matched_keywords, summary, cache,
                                  first_verdict, has_client, has_sender, local_saves,
                                  summarize_calls, summarizer_in, max_papers_arg,
                                  backend, digest_file, saved, html_file,
                                  email_attempts, send_call, result, exit_code >>

\* filter_and_score_papers(list, ms) inside a run
ScoreStage(list, ms) ==
    /\ scorer_in' = list
    /\ min_score' = ms
    /\ last_score' = ScoreCalls(keywords, list, last_score)
    /\ relevance_score' = ScoresAfter(keywords, list, ms, relevance_score)
    /\ matched_keywords' = KeywordsAfter(keywords, list, ms, matched_keywords)

\* summarize_papers_batch, generate_digest_intro, the formatter,
\* _save_digest and _save_html on the scored list
OutputStage(scored, per, max_papers) ==
    \E ok \in (IF has_client THEN SUBSET (DOMAIN Summarized(scored, max_papers)) ELSE { {} }) :
        LET summaries == SummariesAfter(scored, max_papers, ok, summary)
        IN  /\ summary' = summaries
            /\ summarize_calls' = summarize_calls + Len(Summarized(scored, max_papers))
            /\ summarizer_in' = scored
            /\ max_papers_arg' = max_papers
            /\ backend' = BackendAfter(scored, max_papers,
                                       [ i \in DOMAIN Summarized(scored, max_papers) |->
                                           IF i \in ok THEN "text" ELSE "api error" ],
                                       backend)
            /\ digest_file' = WriteFile(digest_file, FileName(per, today),
                                        DigestData(scored, per, Now, relevance_score', summaries))
            /\ saved' = Append(saved,
                               [ file |-> FileName(per, today),
                                 data |-> DigestData(scored, per, Now, relevance_score',
                                                     summaries) ])
            /\ html_file' = WriteFile(html_file, FileName(per, today),
                                      format_email_html(Take(scored, max_papers), per))
            /\ UNCHANGED << local_saves, email_attempts, send_call >>

UnchangedByFinish ==
    UNCHANGED << period, keywords, today, available, runs, collectorVars, cache, batch, max_workers, future, fresult,
                 outcome, yielded, validated_papers, invalid_count, calls,
                 first_verdict, has_client, has_sender, unique >>

\* run_daily from the return of validate_papers_batch to the call of
\* send_digest, or to sys.exit when the run returns before
RunDailyFinish ==
    /\ pc = "validate"
    /\ period = "daily"
    /\ AllCollected
    /\ UnchangedByFinish
    /\ IF validated_papers = << >>
       THEN /\ papers' = << >>
            /\ ReturnEarly("no_valid_papers")
       ELSE LET scored == filter_and_score_papers(keywords, validated_papers,
                                                  DailyMinScore, relevance_score)
            IN  /\ papers' = scored
                /\ ScoreStage(validated_papers, DailyMinScore)
                /\ IF scored = << >>
                   THEN /\ pc' = "exited"
                        /\ result' = [ status |-> "no_relevant_papers", count |-> 0 ]
                        /\ exit_code' = ExitCode("no_relevant_papers")
                        /\ UNCHANGED << summary, local_saves, summarize_calls, summarizer_in, max_papers_arg,
                                        backend, digest_file, saved, html_file, email_attempts, send_call >>
                   ELSE /\ pc' = "send"
                        /\ OutputStage(scored, "daily", DailyMaxPapers)
                        /\ UNCHANGED << result, exit_code >>

\* run_weekly from the return of validate_papers_batch to the call of
\* send_digest
RunWeeklyFinish ==
    /\ pc = "validate"
    /\ period = "weekly"
    /\ AllCollected
    /\ UnchangedByFinish
    /\ LET scored == filter_and_score_papers(keywords, validated_papers,
                                              WeeklyMinScore, relevance_score)
       IN  /\ papers' = scored
           /\ ScoreStage(validated_papers, WeeklyMinScore)
           /\ OutputStage(scored, "weekly", WeeklyMaxPapers)
           /\ pc' = "send"
           /\ UNCHANGED << result, exit_code >>

\* the status the run returns once send_digest is back
FinalStatus(per, scored) ==
    IF per = "daily" \/ scored # << >> THEN "success" ELSE "no_papers"

\* email_sender.send_digest(...), the return of the run and sys.exit; an
\* exception that left send_digest would end the process with a traceback
SendDigest ==
    /\ pc = "send"
    /\ \E response \in (IF has_sender THEN SendResponses ELSE { "not sent" }) :
          LET raised == SendRaises(has_sender, response)
              status == IF raised THEN "crashed" ELSE FinalStatus(period, papers)
          IN  /\ email_attempts' = email_attempts + 1
              /\ local_saves' = IF SavesLocally(has_sender, response)
                                 THEN local_saves + 1 ELSE local_saves
              /\ send_call' = [ response |-> response,
                                returned |-> IF raised THEN "raised"
                                             ELSE IF SendReturns(has_sender, response)
                                                  THEN "True" ELSE "False" ]
              /\ result' = [ status |-> status,
                             count |-> IF raised THEN 0 ELSE Len(papers) ]
              /\ exit_code' = ExitCode(status)
    /\ pc' = "exited"
    /\ UNCHANGED << period, keywords, today, available, runs, collectorVars, papers,
                    scorer_in, min_score, last_score, relevance_score,
                    matched_keywords, summary, cache, batch, max_workers, future,
                    fresult, outcome, yielded, validated_papers, invalid_count,
                    calls, first_verdict, has_client, has_sender, summarize_calls,
                    summarizer_in, max_papers_arg, backend, digest_file, saved,
                    html_file, unique >>

Next ==
    \/ RunDailyCollect
    \/ RunWeeklyCollect
    \/ \E i \in Tasks : TaskStart(i)
    \/ \E i \in Tasks : TaskFinish(i)
    \/ \E i \in Tasks : AsCompleted(i)
    \/ RunDailyFinish
    \/ RunWeeklyFinish
    \/ SendDigest

Spec == InitRun /\ [][Next]_vars

-----------------------------------------------------------------------------
(* SpecScorer: filter_and_score_papers called on its own *)

\* thresholds handed to filter_and_score_papers (5.0 and 10.0 are the
\* pipeline's; the others meet scores the catalogue reaches)
MinScores == { 0, 5, 10, 20, 100 }

InitScorer ==
    /\ pc = "scorer"
    /\ period = "none"
    /\ keywords \in KeywordConfigs
    /\ papers \in DistinctLists(CorePapers, MaxScored)
    /\ scorer_in = << >>
    /\ min_score \in MinScores
    /\ has_client = FALSE
    /\ has_sender = FALSE
    /\ InitPapers
    /\ InitValidator
    /\ InitOutputs
    /\ InitClock
    /\ InitCollectors
    /\ available = CollectorPapers

\* papers = scorer.filter_and_score_papers(papers, min_score)
FilterAndScore ==
    /\ pc = "scorer"
    /\ pc' = "scored"
    /\ scorer_in' = papers
    /\ last_score' = ScoreCalls(keywords, papers, last_score)
    /\ relevance_score' = ScoresAfter(keywords, papers, min_score, relevance_score)
    /\ matched_keywords' = KeywordsAfter(keywords, papers, min_score, matched_keywords)
    /\ papers' = filter_and_score_papers(keywords, papers, min_score, relevance_score)
    /\ UNCHANGED << period, keywords, today, available, runs, collectorVars, min_score, summary, cache, batch, max_workers, future,
                    fresult, outcome, yielded, validated_papers, invalid_count, calls,
                    first_verdict, has_client, has_sender, local_saves, summarize_calls, summarizer_in, max_papers_arg,
                    backend, digest_file, saved, html_file, email_attempts, send_call, result, exit_code,
                    unique >>

NextScorer == FilterAndScore

SpecScorer == InitScorer /\ [][NextScorer]_vars

-----------------------------------------------------------------------------
(* SpecValidator: validate_papers_batch called on a batch, then called    *)
(* again on the same records by the same PaperValidator                    *)

\* longest batch handed to validate_papers_batch in SpecValidator
MaxBatch == 3

\* the max_workers values tried: one worker, and the default
PoolSizes == { 1, DefaultMaxWorkers }

\* one record per check and per cache-key situation: arxiv, openalex, a
\* second openalex record with the same identifier, nber, a doi.org url,
\* and a record without url
ValidatorPapers ==
    { p \in CorePapers : \A q \in CorePapers : (q < p /\ CheckOf(q) = CheckOf(p)) =>
                          CacheKey(q) = CacheKey(p) }

InitBatch ==
    /\ pc = "caller"
    /\ period = "none"
    /\ keywords = FallbackKeywords
    /\ papers \in OrderedLists(ValidatorPapers, MaxBatch)
    /\ scorer_in = << >>
    /\ min_score = 0
    /\ has_client = FALSE
    /\ has_sender = FALSE
    /\ InitPapers
    /\ InitValidator
    /\ InitOutputs
    /\ InitClock
    /\ InitCollectors
    /\ available = CollectorPapers

\* validator.validate_papers_batch(papers, max_workers), up to the
\* submissions: the first call, and the call that validates the same
\* records again
ValidateBatchCall ==
    /\ pc \in { "caller", "again" }
    /\ papers # << >>
    /\ pc' = "validate"
    /\ \E w \in PoolSizes : SubmitAll(papers, w)
    /\ UNCHANGED << cache, first_verdict >>
    /\ UnchangedByValidator

\* validate_papers_batch returns validated_papers; after the first call the
\* caller keeps the records to validate them again
ValidateBatchReturn ==
    /\ pc = "validate"
    /\ AllCollected
    /\ pc' = IF calls = 1 THEN "again" ELSE "finished"
    /\ first_verdict' = IF calls = 1 THEN [ i \in Tasks |-> fresult[i] ] ELSE first_verdict
    /\ UNCHANGED << cache, batch, max_workers, future, fresult, outcome, yielded,
                    validated_papers, invalid_count, calls >>
    /\ UnchangedByValidator

NextValidator ==
    \/ ValidateBatchCall
    \/ \E i \in Tasks : TaskStart(i)
    \/ \E i \in Tasks : TaskFinish(i)
    \/ \E i \in Tasks : AsCompleted(i)
    \/ ValidateBatchReturn

SpecValidator == InitBatch /\ [][NextValidator]_vars

-----------------------------------------------------------------------------
(* SpecDedup: _deduplicate_papers called on a list of collected records,   *)
(* then called on its own output                                           *)

\* longest list handed to _deduplicate_papers in SpecDedup
MaxDedup == 3

InitDedup ==
    /\ pc = "dedup"
    /\ period = "none"
    /\ keywords = FallbackKeywords
    /\ papers \in DistinctLists(CorePapers, MaxDedup)
    /\ scorer_in = << >>
    /\ min_score = 0
    /\ has_client = FALSE
    /\ has_sender = FALSE
    /\ InitPapers
    /\ InitValidator
    /\ InitOutputs
    /\ InitClock
    /\ InitCollectors
    /\ available = CollectorPapers

UnchangedByDedup ==
    UNCHANGED << period, keywords, today, available, runs, collectorVars, scorer_in, min_score, last_score, relevance_score,
                 matched_keywords, summary, cache, batch, max_workers, future,
                 fresult, outcome, yielded, validated_papers, invalid_count, calls,
                 first_verdict, has_client, has_sender, local_saves,
                 summarize_calls, summarizer_in, max_papers_arg,
                 backend, digest_file, saved, html_file, email_attempts, send_call, result,
                 exit_code >>

\* unique_papers = self._deduplicate_papers(all_papers)
Deduplicate ==
    /\ pc = "dedup"
    /\ pc' = "deduped"
    /\ unique' = deduplicate_papers(papers)
    /\ UNCHANGED papers
    /\ UnchangedByDedup

\* _deduplicate_papers applied to the list it returned
DeduplicateAgain ==
    /\ pc = "deduped"
    /\ pc' = "rededuped"
    /\ papers' = unique
    /\ unique' = deduplicate_papers(unique)
    /\ UnchangedByDedup

NextDedup ==
    \/ Deduplicate
    \/ DeduplicateAgain

SpecDedup == InitDedup /\ [][NextDedup]_vars

-----------------------------------------------------------------------------
(* SpecSummarizer: summarize_papers_batch called on a list of papers       *)

\* longest list handed to summarize_papers_batch in SpecSummarizer
MaxSummarized == 2

\* the max_papers values tried: none, one, and the daily run's
MaxPapersArgs == { 0, 1, DailyMaxPapers }

InitSummarizer ==
    /\ pc = "summarizer"
    /\ period = "none"
    /\ keywords = FallbackKeywords
    /\ papers \in DistinctLists(CorePapers, MaxSummarized)
    /\ scorer_in = << >>
    /\ min_score = 0
    /\ has_client \in BOOLEAN
    /\ has_sender = FALSE
    /\ InitPapers
    /\ InitValidator
    /\ InitOutputs
    /\ InitClock
    /\ InitCollectors
    /\ available = CollectorPapers

\* papers = summarizer.summarize_papers_batch(papers, max_papers)
SummarizeBatch ==
    /\ pc = "summarizer"
    /\ pc' = "summarized"
    /\ \E mp \in MaxPapersArgs :
         \E how \in [ DOMAIN Summarized(papers, mp) -> { "text" } \cup BackendFailures ] :
            /\ summarizer_in' = papers
            /\ max_papers_arg' = mp
            /\ summary' = SummariesAfter(papers, mp,
                                         { i \in DOMAIN how : how[i] = "text" }, summary)
            /\ backend' = BackendAfter(papers, mp, how, backend)
            /\ summarize_calls' = summarize_calls + Len(Summarized(papers, mp))
    /\ UNCHANGED << period, keywords, today, available, runs, collectorVars, papers, scorer_in, min_score, last_score,
                    relevance_score, matched_keywords, cache, batch, max_workers,
                    future, fresult, outcome, yielded, validated_papers,
                    invalid_count, calls, first_verdict, has_client, has_sender,
                    local_saves, digest_file, saved, html_file, email_attempts, send_call, result,
                    exit_code, unique >>

NextSummarizer == SummarizeBatch

SpecSummarizer == InitSummarizer /\ [][NextSummarizer]_vars

-----------------------------------------------------------------------------
(* SpecRuns: main() started several times, on the same day or on the next, *)
(* each time in a new process that finds the files of the earlier runs     *)

\* number of main() processes in SpecRuns
MaxRuns == 2

\* number of calendar days the runs of SpecRuns spread over
MaxDays == 2

\* what the sources offer when a run of SpecRuns collects: one record
Offers == { { p } : p \in CollectorPapers }

InitRuns ==
    /\ pc = "main"
    /\ period = "none"
    /\ keywords = FallbackKeywords
    /\ papers = << >>
    /\ scorer_in = << >>
    /\ min_score = 0
    /\ has_client = FALSE
    /\ has_sender \in BOOLEAN
    /\ InitPapers
    /\ InitValidator
    /\ InitOutputs
    /\ InitClock
    /\ InitCollectors
    /\ available \in Offers

\* the process has exited and main() is started again: every object is
\* built anew, the files in data/ and what was sent stay
StartRun ==
    /\ pc = "exited"
    /\ runs + 1 < MaxRuns
    /\ runs' = runs + 1
    /\ today' \in { d \in { today, today + 1 } : d <= MaxDays }
    /\ available' \in Offers
    /\ pc' = "main"
    /\ period' = "none"
    /\ papers' = << >>
    /\ scorer_in' = << >>
    /\ min_score' = 0
    /\ relevance_score' = [ p \in PaperIds |-> 0 ]
    /\ matched_keywords' = [ p \in PaperIds |-> << >> ]
    /\ summary' = [ p \in PaperIds |-> << >> ]
    /\ last_score' = [ p \in PaperIds |-> << 0, << >> >> ]
    /\ cache' = << >>
    /\ batch' = << >>
    /\ max_workers' = 0
    /\ future' = << >>
    /\ fresult' = << >>
    /\ outcome' = << >>
    /\ yielded' = {}
    /\ validated_papers' = << >>
    /\ invalid_count' = 0
    /\ calls' = 0
    /\ first_verdict' = << >>
    /\ summarizer_in' = << >>
    /\ max_papers_arg' = 0
    /\ backend' = [ p \in PaperIds |-> "not called" ]
    /\ result' = << >>
    /\ exit_code' = -1
    /\ unique' = << >>
    /\ send_call' = NoSend
    /\ UNCHANGED << keywords, collectorVars, has_client, has_sender, local_saves,
                    summarize_calls, digest_file, saved, html_file, email_attempts >>

NextRuns ==
    \/ Next
    \/ StartRun

SpecRuns == InitRuns /\ [][NextRuns]_vars

-----------------------------------------------------------------------------
(* SpecDigest: a run from the return of validate_papers_batch on, with    *)
(* lists longer than the max_papers of the daily run among its inputs      *)

\* most records of the core catalogue in a list of SpecDigest
MaxExtra == 2

\* what the validation hands on: a few records, alone or ahead of the
\* further records
DigestLists ==
    { l \o rest : l \in DistinctLists(CollectorPapers, MaxExtra),
                  rest \in { << >>, BulkList } } \ { << >> }

\* validate_papers_batch is about to return in a run of either period:
\* every record was found valid; the summarizer has no API key
InitDigest ==
    /\ pc = "validate"
    /\ period \in { "daily", "weekly" }
    /\ keywords = FallbackKeywords
    /\ papers \in DigestLists
    /\ unique = papers
    /\ batch = papers
    /\ validated_papers = papers
    /\ max_workers = DefaultMaxWorkers
    /\ future = [ i \in DOMAIN papers |-> "finished" ]
    /\ outcome = [ i \in DOMAIN papers |-> "200" ]
    /\ fresult = [ i \in DOMAIN papers |-> Verdict(CheckOf(papers[i]), "200") ]
    /\ cache = [ k \in { CacheKey(papers[i]) : i \in DOMAIN papers } |->
                   Verdict(CheckOf(CHOOSE p \in Range(papers) : CacheKey(p) = k), "200") ]
    /\ yielded = DOMAIN papers
    /\ invalid_count = 0
    /\ calls = 1
    /\ first_verdict = << >>
    /\ scorer_in = << >>
    /\ min_score = 0
    /\ has_client = FALSE
    /\ has_sender \in BOOLEAN
    /\ InitPapers
    /\ summarize_calls = 0
    /\ summarizer_in = << >>
    /\ max_papers_arg = 0
    /\ backend = [ p \in PaperIds |-> "not called" ]
    /\ local_saves = 0
    /\ digest_file = << >>
    /\ saved = << >>
    /\ html_file = << >>
    /\ email_attempts = 0
    /\ send_call = NoSend
    /\ result = << >>
    /\ exit_code = -1
    /\ InitClock
    /\ InitCollectors
    /\ available = CollectorPapers

NextDigest ==
    \/ RunDailyFinish
    \/ RunWeeklyFinish
    \/ SendDigest

SpecDigest == InitDigest /\ [][NextDigest]_vars

-----------------------------------------------------------------------------
(* SpecCollectors: fetch_recent of one source client, sub-request by       *)
(* sub-request, against remote ends that answer anything                   *)

InitFetch ==
    /\ pc = "fetch"
    /\ period = "none"
    /\ keywords = FallbackKeywords
    /\ papers = << >>
    /\ scorer_in = << >>
    /\ min_score = 0
    /\ has_client = FALSE
    /\ has_sender = FALSE
    /\ InitPapers
    /\ InitValidator
    /\ InitOutputs
    /\ InitClock
    /\ available = CollectorPapers
    /\ client \in Clients
    /\ subrequests \in SubRequestCounts(client)
    /\ request = 1
    /\ all_papers = << >>
    /\ last_sub = NoSub
    /\ fetched = << >>

UnchangedByFetch ==
    UNCHANGED << period, keywords, today, available, runs, papers, scorer_in,
                 min_score, last_score, relevance_score, matched_keywords, summary,
                 cache, batch, max_workers, future, fresult, outcome, yielded,
                 validated_papers, invalid_count, calls, first_verdict, has_client,
                 has_sender, local_saves, summarize_calls, summarizer_in,
                 max_papers_arg, backend, digest_file, saved, html_file,
                 email_attempts, send_call, result, exit_code, unique, client, subrequests >>

\* one sub-request of fetch_recent: the request (its retries included), the
\* parsing of the answer, all_papers.extend; or the exception that leaves
\* fetch_recent
FetchSubRequest ==
    /\ pc = "fetch"
    /\ request <= subrequests
    /\ \E attempts \in AttemptsOf[client] :
          LET got == SubRequest(client, attempts)
          IN  /\ last_sub' = [ kinds |-> [ i \in DOMAIN attempts |-> attempts[i].kind ],
                               tries |-> got.tries, data |-> got.data,
                               count |-> Len(got.papers) ]
              /\ IF got.raised
                 THEN /\ pc' = "raised"
                      /\ UNCHANGED << request, all_papers >>
                 ELSE /\ pc' = "fetch"
                      /\ request' = request + 1
                      /\ all_papers' = all_papers \o got.papers
    /\ UNCHANGED fetched
    /\ UnchangedByFetch

\* fetch_recent returns
FetchReturn ==
    /\ pc = "fetch"
    /\ request > subrequests
    /\ pc' = "fetched"
    /\ fetched' = FetchResult(client, all_papers)
    /\ UNCHANGED << request, all_papers, last_sub >>
    /\ UnchangedByFetch

NextFetch ==
    \/ FetchSubRequest
    \/ FetchReturn

SpecCollectors == InitFetch /\ [][NextFetch]_vars

-----------------------------------------------------------------------------
(* Properties of the Relevance Scorer, checked under SpecScorer *)

\* C6: filter_and_score_papers keeps a paper if and only if its computed
\* score is >= min_score; a score equal to min_score is kept.
C6_InclusiveThreshold ==
    pc = "scored" =>
        \A p \in Range(scorer_in) :
            (p \in Range(papers)) <=> (last_score[p][1] >= min_score * 9)

\* a retained paper whose score equals a positive min_score exactly
C6_Witness ==
    /\ pc = "scored"
    /\ min_score > 0
    /\ \E p \in Range(papers) : last_score[p][1] = min_score * 9

\* C7: the returned list is in non-increasing relevance_score order and
\* papers of equal score keep their relative input order.
C7_SortedStable ==
    pc = "scored" =>
        \A i, j \in DOMAIN papers :
            i < j =>
                /\ relevance_score[papers[i]] >= relevance_score[papers[j]]
                /\ relevance_score[papers[i]] = relevance_score[papers[j]]
                      => IndexIn(scorer_in, papers[i]) < IndexIn(scorer_in, papers[j])

\* the sort moved a paper forward and the output holds a tie
C7_Witness ==
    /\ pc = "scored"
    /\ \E i, j \in DOMAIN papers :
          i < j /\ relevance_score[papers[i]] = relevance_score[papers[j]]
    /\ \E i, j \in DOMAIN papers :
          /\ i < j
          /\ relevance_score[papers[i]] > relevance_score[papers[j]]
          /\ IndexIn(scorer_in, papers[i]) > IndexIn(scorer_in, papers[j])

\* C8: score_paper returns a score within [0, 100]: 0 when the raw sum is
\* zero or negative, 100 when it exceeds 45, raw / 45 * 100 otherwise; the
\* Scenario B paper scores 0 under the fallback keywords and is dropped at
\* min_score 5.0.
C8_NormalizedScore ==
    pc = "scored" =>
        /\ \A p \in Range(scorer_in) :
              LET raw == RawOf[keywords][p]
                  s   == last_score[p][1]
              IN  /\ 0 <= s /\ s <= 100 * 9
                  /\ raw <= 0 => s = 0
                  /\ raw > 45 => s = 100 * 9
                  /\ (0 < raw /\ raw <= 45) => s = raw * 20
        /\ (keywords = FallbackKeywords /\ ScenarioB \in Range(scorer_in) /\ min_score = 5)
              => /\ last_score[ScenarioB][1] = 0
                 /\ ExcludedOf[keywords][ScenarioB] # << >>
                 /\ ScenarioB \notin Range(papers)

\* Scenario B scored next to a paper with a raw sum between 0 and 45
C8_Witness ==
    /\ pc = "scored"
    /\ keywords = FallbackKeywords
    /\ min_score = 5
    /\ ScenarioB \in Range(scorer_in)
    /\ RawOf[keywords][ScenarioB] < 0
    /\ \E p \in Range(scorer_in) : 0 < RawOf[keywords][p] /\ RawOf[keywords][p] <= 45

KwMechanismDesign == <<"m","e","c","h","a","n","i","s","m"," ","d","e","s","i","g","n">>

KwCapacityMarket == <<"c","a","p","a","c","i","t","y"," ","m","a","r","k","e","t">>

\* C9 as stated: Scenario A's paper scores positively and its matched
\* keywords contain both "mechanism design" and "capacity market".
C9_ScenarioA_AsStated ==
    (pc = "scored" /\ keywords = FallbackKeywords /\ ScenarioA \in Range(scorer_in)) =>
        /\ last_score[ScenarioA][1] > 0
        /\ KwMechanismDesign \in Range(last_score[ScenarioA][2])
        /\ KwCapacityMarket \in Range(last_score[ScenarioA][2])

\* C9 amended: Scenario A's paper scores positively and its matched
\* keywords contain "mechanism design" but not "capacity market": the text
\* has only the plural "Capacity Markets", which the \b pattern rejects.
C9_ScenarioA ==
    (pc = "scored" /\ keywords = FallbackKeywords /\ ScenarioA \in Range(scorer_in)) =>
        /\ last_score[ScenarioA][1] > 0
        /\ KwMechanismDesign \in Range(last_score[ScenarioA][2])
        /\ KwCapacityMarket \notin Range(last_score[ScenarioA][2])

\* Scenario A's paper scored with the fallback keywords and retained
C9_Witness ==
    /\ pc = "scored"
    /\ keywords = FallbackKeywords
    /\ ScenarioA \in Range(papers)
    /\ matched_keywords[ScenarioA] # << >>

\* the distinct positive-weight keywords score_paper matched
PositiveMatches(p) == Range(last_score[p][2])

\* C10 as stated: with the same excluded matches, a paper matching more
\* distinct positive-weight keywords never scores lower than one matching
\* fewer.
C10_MonotoneInCount_AsStated ==
    pc = "scored" =>
        \A p, q \in Range(scorer_in) :
            ( /\ ExcludedOf[keywords][p] = ExcludedOf[keywords][q]
              /\ Cardinality(PositiveMatches(p)) > Cardinality(PositiveMatches(q)) )
            => last_score[p][1] >= last_score[q][1]

\* C10 amended: with the same excluded matches, a paper whose matched
\* positive-weight keywords include all those of another paper never scores
\* lower than that paper.
C10_MonotoneInSet ==
    pc = "scored" =>
        \A p, q \in Range(scorer_in) :
            ( /\ ExcludedOf[keywords][p] = ExcludedOf[keywords][q]
              /\ PositiveMatches(q) \subseteq PositiveMatches(p) )
            => last_score[p][1] >= last_score[q][1]

\* two scored papers, one matching strictly more keywords than the other
C10_Witness ==
    /\ pc = "scored"
    /\ \E p, q \in Range(scorer_in) :
          /\ ExcludedOf[keywords][p] = ExcludedOf[keywords][q]
          /\ PositiveMatches(q) \subseteq PositiveMatches(p)
          /\ PositiveMatches(q) # PositiveMatches(p)
          /\ PositiveMatches(q) # {}
          /\ last_score[p][1] > last_score[q][1]

-----------------------------------------------------------------------------
(* Properties of the runs, checked under Spec *)

RunReturned == pc = "exited"

\* C1: the status a run returns names the stage that emptied the paper
\* list: no_papers exactly when nothing was collected, no_valid_papers
\* exactly when papers were collected and none was valid,
\* no_relevant_papers exactly when some were valid and none reached the
\* threshold, success exactly when a paper survived scoring.
C1_StatusNamesStage ==
    RunReturned =>
        /\ result.status = "no_papers" <=> batch = << >>
        /\ result.status = "no_valid_papers" <=>
              (batch # << >> /\ validated_papers = << >>)
        /\ result.status = "no_relevant_papers" <=>
              (validated_papers # << >> /\ papers = << >>)
        /\ result.status = "success" <=> papers # << >>

\* the statement of C1 on the daily runs alone
C1_DailyStatusNamesStage == period = "daily" => C1_StatusNamesStage

\* C2: a run whose paper list became empty requests no summary, writes no
\* digest file and attempts no send; files are written and a send is
\* attempted only by runs that return success with count >= 1.
C2_EmptyRunsStop ==
    RunReturned =>
        /\ (batch = << >> \/ validated_papers = << >> \/ papers = << >>) =>
              /\ summarize_calls = 0
              /\ digest_file = << >>
              /\ html_file = << >>
              /\ email_attempts = 0
        /\ (digest_file # << >> \/ html_file # << >> \/ email_attempts > 0) =>
              (result.status = "success" /\ result.count >= 1)

\* the statement of C2 on the daily runs alone
C2_DailyEmptyRunsStop == period = "daily" => C2_EmptyRunsStop

-----------------------------------------------------------------------------
(* Properties of the Existence Validator, checked under SpecValidator *)

\* validate_papers_batch has returned
BatchReturned == pc \in { "again", "finished" }

ValidTasks == { i \in Tasks : fresult[i].is_valid }

FailedResponses == { "404", "timeout", "error" }

DistinctKeys == \A i, j \in Tasks : i # j => CacheKey(batch[i]) # CacheKey(batch[j])

\* C3: validate_papers_batch returns exactly the input papers whose check
\* returned valid, each once, N - k of them when k checks return invalid,
\* whatever the order in which the tasks ran and completed.
C3_ExactlyTheValid ==
    BatchReturned =>
        /\ Len(validated_papers) = Len(batch) - Cardinality(Tasks \ ValidTasks)
        /\ Range(validated_papers) = { batch[i] : i \in ValidTasks }
        /\ \A a, b \in DOMAIN validated_papers :
              a # b => validated_papers[a] # validated_papers[b]
        /\ \A i \in Tasks : outcome[i] \in Responses =>
              (fresult[i].is_valid <=> outcome[i] = "200")

\* a returned batch with an invalid paper, whose valid papers came back in
\* another order than they went in
C3_Witness ==
    /\ BatchReturned
    /\ Tasks \ ValidTasks # {}
    /\ \E a, b \in DOMAIN validated_papers :
          a < b /\ IndexIn(batch, validated_papers[a]) > IndexIn(batch, validated_papers[b])

\* C4: after a batch of records with pairwise distinct (source, source_id)
\* the cache holds exactly one entry per record, valid or not, and
\* validating the same records again sends no request and gives each record
\* the verdict it had.
C4_CachePerRecord ==
    (BatchReturned /\ DistinctKeys) =>
        /\ DOMAIN cache = { CacheKey(batch[i]) : i \in Tasks }
        /\ Cardinality(DOMAIN cache) = Len(batch)
        /\ \A i \in Tasks : cache[CacheKey(batch[i])] = fresult[i]
        /\ calls > 1 =>
              \A i \in Tasks : outcome[i] = "cached" /\ fresult[i] = first_verdict[i]

\* the same records validated a second time, valid and invalid ones
C4_Witness ==
    /\ BatchReturned
    /\ DistinctKeys
    /\ calls = 2
    /\ ValidTasks # {}
    /\ Tasks \ ValidTasks # {}
    /\ \A i \in Tasks : outcome[i] = "cached"

\* C5: a check that fails (non-200 status, timeout, exception) makes its
\* paper invalid and nothing more: the batch still returns, every other
\* task has run, a paper whose own request was answered 200 is returned,
\* and the failed paper is absent from the output.
C5_FailureIsNotFatal ==
    BatchReturned =>
        /\ \A i \in Tasks :
              /\ future[i] = "finished"
              /\ outcome[i] # "unchecked"
              /\ outcome[i] \in FailedResponses =>
                    ~ fresult[i].is_valid /\ batch[i] \notin Range(validated_papers)
              /\ outcome[i] = "200" => batch[i] \in Range(validated_papers)
        /\ Len(validated_papers) + invalid_count = Len(batch)

\* a returned batch in which one request failed before a later one was
\* answered 200
C5_Witness ==
    /\ BatchReturned
    /\ \E i, j \in Tasks :
          /\ i < j
          /\ outcome[i] \in { "timeout", "error" }
          /\ outcome[j] = "200"
          /\ batch[j] \in Range(validated_papers)

-----------------------------------------------------------------------------
(* Properties of the deduplication, checked under SpecDedup *)

\* the key as the contract words it: the title lower-cased, stripped of
\* leading and trailing whitespace, cut to 100 characters
ContractKeyOf ==
    [ p \in PaperIds |->
        LET stripped == Strip(Lower(Catalogue[p].title))
        IN  SubSeq(stripped, 1, IF Len(stripped) < 100 THEN Len(stripped) ELSE 100) ]

\* C11: _deduplicate_papers returns a subsequence of its input, in input
\* order, that keeps for each key exactly the first paper with that key: no
\* two output papers share a key and every input key appears in the output.
C11_FirstOfEachKey ==
    pc = "deduped" =>
        /\ \A i \in DOMAIN unique : \E j \in DOMAIN papers : papers[j] = unique[i]
        /\ \A i, j \in DOMAIN unique :
               i < j => /\ IndexIn(papers, unique[i]) < IndexIn(papers, unique[j])
                        /\ ContractKeyOf[unique[i]] # ContractKeyOf[unique[j]]
        /\ \A j \in DOMAIN papers :
               /\ \E i \in DOMAIN unique : ContractKeyOf[unique[i]] = ContractKeyOf[papers[j]]
               /\ (\E i \in DOMAIN unique : unique[i] = papers[j])
                     <=> (\A k \in 1 .. (j - 1) :
                             ContractKeyOf[papers[k]] # ContractKeyOf[papers[j]])

\* Scenario C happened: two papers of different sources whose titles differ
\* in case and surrounding whitespace only were in the input, and a pair
\* whose titles differ after the 100th character; the first of each was kept
C11_Witness ==
    /\ pc = "deduped"
    /\ Len(papers) = 3
    /\ Len(unique) = 1
    /\ \E i, j \in DOMAIN papers :
          /\ i < j
          /\ Catalogue[papers[i]].source # Catalogue[papers[j]].source
          /\ Catalogue[papers[i]].title # Catalogue[papers[j]].title
          /\ Len(Catalogue[papers[i]].title) > 100
          /\ Head(Catalogue[papers[j]].title) \in WhiteSpace
    /\ unique[1] = papers[1]

\* C12: deduplication is idempotent: applied to its own output,
\* _deduplicate_papers returns the same papers in the same order.
C12_Idempotent ==
    pc = "rededuped" => unique = papers

\* the second application ran on an output of two papers or more
C12_Witness ==
    /\ pc = "rededuped"
    /\ Len(papers) >= 2
    /\ unique = papers

-----------------------------------------------------------------------------
(* Properties of the summarizer, checked under SpecSummarizer *)

\* the positions summarize_papers_batch is to fill: the first
\* min(len(papers), max_papers)
FirstPositions == 1 .. (IF Len(papers) < max_papers_arg THEN Len(papers) ELSE max_papers_arg)

\* the summarize_paper call of this paper had no client or a failed backend call
FellBack(p) == backend[p] \in { "no client" } \cup BackendFailures

\* C13: summarize_paper never raises and always returns a string: with no
\* client, or when the backend call fails for any reason, it returns the
\* fallback summary, which depends on the abstract alone.
C13_FallbackOnFailure ==
    /\ pc = "summarizer" => ENABLED SummarizeBatch
    /\ pc = "summarized" =>
          \A i \in FirstPositions :
             /\ FellBack(papers[i]) => summary[papers[i]] = SimpleSummaryOf[papers[i]]
             /\ \A j \in FirstPositions :
                   ( /\ FellBack(papers[i])
                     /\ FellBack(papers[j])
                     /\ Catalogue[papers[i]].abstract = Catalogue[papers[j]].abstract )
                   => summary[papers[i]] = summary[papers[j]]

\* a backend call returned a malformed response for a paper with an
\* abstract and another raised for a paper with the same abstract as a
\* third one, or succeeded
C13_Witness ==
    /\ pc = "summarized"
    /\ has_client
    /\ Len(papers) = 2
    /\ max_papers_arg >= 2
    /\ backend[papers[1]] = "malformed response"
    /\ backend[papers[2]] = "network error"
    /\ Catalogue[papers[1]].abstract # << >>
    /\ summary[papers[1]] # summary[papers[2]]
    /\ summary[papers[1]] # BackendText

\* the first two sentences of the abstract joined by `. ` and suffixed
\* with `.`, truncated to 300 characters with `...`
TwoSentences(p) ==
    LET whole == Join(Take(Split(Catalogue[p].abstract, <<"."," ">>), 2), <<"."," ">>) \o <<".">>
    IN  IF Len(whole) > 300 THEN SubSeq(whole, 1, 297) \o <<".",".",".">> ELSE whole

TwoSentencesOf == [ p \in PaperIds |-> TwoSentences(p) ]

\* C14: with no backend configured, the summary of a paper with a
\* non-empty abstract is the first two sentences of the abstract joined by
\* `. ` and suffixed with `.`, truncated to 300 characters with `...`, and is
\* never longer than 300 characters.
C14_AtMost300 ==
    (pc = "summarized" /\ ~ has_client) =>
        \A i \in FirstPositions :
            Catalogue[papers[i]].abstract # << >> =>
               /\ Len(summary[papers[i]]) <= 300
               /\ summary[papers[i]] = TwoSentencesOf[papers[i]]

\* C15: summarize_papers_batch sets summary on exactly the first
\* min(len(papers), max_papers) papers, leaves the summary of every later
\* paper empty, and returns the papers it received, in the same order.
C15_FirstPapersOnly ==
    pc = "summarized" =>
        /\ papers = summarizer_in
        /\ summarize_calls = Cardinality(FirstPositions)
        /\ \A i \in DOMAIN papers :
              IF i \in FirstPositions
              THEN /\ backend[papers[i]] # "not called"
                   /\ summary[papers[i]] # << >>
              ELSE /\ backend[papers[i]] = "not called"
                   /\ summary[papers[i]] = << >>
        /\ \A p \in PaperIds :
              (\A i \in DOMAIN papers : papers[i] # p) => summary[p] = << >>

\* a list longer than max_papers was summarized: the first paper has a
\* summary, the second has none
C15_Witness ==
    /\ pc = "summarized"
    /\ Len(papers) = 2
    /\ max_papers_arg = 1
    /\ summary[papers[1]] # << >>
    /\ summary[papers[2]] = << >>

-----------------------------------------------------------------------------
(* Properties of the persisted digest *)

\* C16: writing a digest and reading it back reproduces every PaperRecord
\* attribute for every paper: the serialized paper carries title, abstract,
\* url, source, source_id, relevance_score, summary and matched_keywords,
\* each equal to the value the scored paper held when the digest was saved.
\* Checked under Spec.
C16_RoundTrip ==
    pc = "exited" =>
        \A f \in DOMAIN digest_file :
            /\ Len(digest_file[f].papers) = Len(papers)
            /\ \A i \in DOMAIN papers :
                  LET d == digest_file[f].papers[i]
                      p == papers[i]
                  IN  /\ d.title = Catalogue[p].title
                      /\ d.abstract = Catalogue[p].abstract
                      /\ d.url = Catalogue[p].url
                      /\ d.source = Catalogue[p].source
                      /\ d.source_id = Catalogue[p].source_id
                      /\ d.relevance_score = relevance_score[p]
                      /\ d.summary = summary[p]
                      /\ "matched_keywords" \in DOMAIN d
                      /\ d.matched_keywords = matched_keywords[p]

\* the attributes of the dataclass do come back as they were saved
C16_DataclassFieldsRoundTrip ==
    pc = "exited" =>
        \A f \in DOMAIN digest_file :
            /\ Len(digest_file[f].papers) = Len(papers)
            /\ \A i \in DOMAIN papers :
                  LET d == digest_file[f].papers[i]
                      p == papers[i]
                  IN  /\ d.title = Catalogue[p].title
                      /\ d.abstract = Catalogue[p].abstract
                      /\ d.url = Catalogue[p].url
                      /\ d.source = Catalogue[p].source
                      /\ d.source_id = Catalogue[p].source_id
                      /\ d.relevance_score = relevance_score[p]
                      /\ d.summary = summary[p]

\* C17: a digest is created once per pipeline run and is immutable once
\* written: every run that saved a digest has its own file, and no later run
\* changes or replaces the digest an earlier run wrote.  Checked under
\* SpecRuns.
C17_DigestImmutable ==
    \A i \in DOMAIN saved :
        /\ saved[i].file \in DOMAIN digest_file
        /\ digest_file[saved[i].file] = saved[i].data
        /\ \A j \in DOMAIN saved : j # i => saved[j].file # saved[i].file

\* runs on different days, or of different periods, leave each other's
\* digest alone
C17_OtherDaysUntouched ==
    \A i, j \in DOMAIN saved :
        (i < j /\ saved[i].file # saved[j].file) =>
            digest_file[saved[i].file] = saved[i].data

-----------------------------------------------------------------------------
(* Properties of the source clients, checked under SpecCollectors *)

\* C18: every source client (arXiv, OpenAlex, NBER) returns from
\* fetch_recent a sequence in which no two papers have the same source_id,
\* whatever the remote responses contain.
C18_UniqueSourceIds ==
    pc = "fetched" =>
        \A i, j \in DOMAIN fetched :
            i # j => fetched[i].source_id # fetched[j].source_id

\* the arXiv and the OpenAlex client do return distinct source_ids
C18_ArxivOpenAlexUnique ==
    (pc = "fetched" /\ client \in { "arxiv", "openalex" }) =>
        \A i, j \in DOMAIN fetched :
            i # j => fetched[i].source_id # fetched[j].source_id

\* C19: every paper record a source client produces has a non-empty
\* source_id: an entry for which no identifier can be derived is never
\* turned into a record.
C19_NonEmptySourceId ==
    /\ \A i \in DOMAIN all_papers : all_papers[i].source_id # << >>
    /\ \A i \in DOMAIN fetched : fetched[i].source_id # << >>

\* the arXiv client drops the entry without an abs link
C19_ArxivNonEmpty ==
    client = "arxiv" =>
        /\ \A i \in DOMAIN all_papers : all_papers[i].source_id # << >>
        /\ \A i \in DOMAIN fetched : fetched[i].source_id # << >>

\* C20: a failure of one sub-request of the arXiv or the OpenAlex client
\* (a network error or a malformed response) contributes zero papers for
\* that sub-request only: fetch_recent does not raise, the other
\* sub-requests are still issued, and the papers already collected are
\* returned.
C20_PartialFailure ==
    client \in { "arxiv", "openalex" } =>
        /\ pc # "raised"
        /\ pc = "fetched" =>
              /\ request = subrequests + 1
              /\ \A i \in DOMAIN all_papers :
                    \E j \in DOMAIN fetched : fetched[j].source_id = all_papers[i].source_id

\* the OpenAlex client does go on after any failed sub-request
C20_OpenAlexPartialFailure ==
    client = "openalex" =>
        /\ pc # "raised"
        /\ pc = "fetched" =>
              /\ request = subrequests + 1
              /\ \A i \in DOMAIN all_papers :
                    \E j \in DOMAIN fetched : fetched[j].source_id = all_papers[i].source_id

-----------------------------------------------------------------------------
(* Properties of the delivery and of the exit code, checked under Spec *)

\* send_digest was called and the mail was not delivered: no client, a
\* status outside 200, 201, 202, or an exception during the send
DeliveryFailed ==
    /\ send_call # NoSend
    /\ ~ has_sender \/ send_call.response \notin AcceptedStatus

\* C21: when the delivery fails, send_digest returns False without
\* raising after attempting the local save of the html, and a run that
\* produced at least one paper still returns success; the digest JSON of
\* the run is written before the send is attempted.
C21_FailedSendIsNotFatal ==
    /\ pc = "send" =>
          /\ email_attempts = 0
          /\ FileName(period, today) \in DOMAIN digest_file
          /\ digest_file[FileName(period, today)].paper_count = Len(papers)
    /\ DeliveryFailed =>
          /\ send_call.returned = "False"
          /\ local_saves = email_attempts
          /\ FileName(period, today) \in DOMAIN digest_file
          /\ papers # << >> => (result.status = "success" /\ exit_code = 0)

\* a run with a paper whose send ended with an exception of the client
C21_Witness ==
    /\ pc = "exited"
    /\ DeliveryFailed
    /\ has_sender
    /\ send_call.response = "error"
    /\ papers # << >>

\* the statuses run_daily and run_weekly return
Statuses == { "success", "no_papers", "no_valid_papers", "no_relevant_papers" }

\* C22: the process exit code is 0 exactly when the status of the run is
\* success, and 1 for every other status, for the daily and the weekly run.
C22_ExitCodeFollowsStatus ==
    pc = "exited" =>
        /\ period \in { "daily", "weekly" }
        /\ result.status \in Statuses
        /\ exit_code \in { 0, 1 }
        /\ exit_code = 0 <=> result.status = "success"

\* a weekly run that wrote and sent an empty digest and exited with 1
C22_Witness ==
    /\ pc = "exited"
    /\ period = "weekly"
    /\ email_attempts = 1
    /\ result.status = "no_papers"
    /\ exit_code = 1

-----------------------------------------------------------------------------
(* Properties of the validation cache under concurrency, checked under     *)
(* SpecValidator                                                           *)

\* the tasks of the batch whose check sent a request
Requested == { i \in Tasks : outcome[i] \in Responses }

\* C23: when the same (source, source_id) occurs more than once in a
\* batch, the network check for it is performed exactly once across the
\* worker tasks, under every interleaving.
C23_CheckedOncePerKey ==
    \A i, j \in Requested : CacheKey(batch[i]) = CacheKey(batch[j]) => i = j

\* with a pool of one worker the tasks run one after the other and the
\* second task of a key is answered from the cache
C23_OneWorkerCheckedOncePerKey == max_workers = 1 => C23_CheckedOncePerKey

\* C24: the validation cache is write-once per key: an entry it holds is
\* never removed and never replaced by a different result, under any
\* interleaving of the validation tasks, so that two records of one key
\* always receive the same verdict.
C24_WriteOnce ==
    [][ /\ \A k \in DOMAIN cache : k \in DOMAIN cache' /\ cache'[k] = cache[k]
        /\ \A i, j \in Tasks :
              ( /\ future'[i] = "finished"
                /\ future'[j] = "finished"
                /\ batch' = batch
                /\ CacheKey(batch[i]) = CacheKey(batch[j]) ) => fresult'[i] = fresult'[j]
      ]_vars

\* no entry is ever removed from the cache
C24_NeverRemoved == [][ DOMAIN cache \subseteq DOMAIN cache' ]_vars

\* with a pool of one worker no entry is ever replaced
C24_OneWorkerWriteOnce ==
    [][ max_workers = 1 =>
          \A k \in DOMAIN cache : k \in DOMAIN cache' /\ cache'[k] = cache[k] ]_vars

\* C25: validate_papers_batch returns only after every submitted check
\* has finished: at its return no task is pending or running, and the
\* papers returned plus the papers counted invalid are the papers
\* submitted.
C25_ReturnsAfterAllChecks ==
    BatchReturned =>
        /\ \A i \in Tasks : future[i] = "finished"
        /\ Len(validated_papers) + invalid_count = Len(batch)

\* a full batch has returned with valid and invalid papers in it
C25_Witness ==
    /\ BatchReturned
    /\ Len(batch) = MaxBatch
    /\ validated_papers # << >>
    /\ invalid_count > 0
    /\ max_workers = DefaultMaxWorkers

-----------------------------------------------------------------------------
(* The raw sum of score_paper, checked under SpecScorer *)

\* the keywords of a category, by position in the configuration, that
\* occur at least once in the title and abstract of p
MatchedIn(kws, category, p) ==
    { i \in DOMAIN kws[category] : Occurrences(kws[category][i], ScoredText(p)) # {} }

\* 3 per matched primary, 2 per matched secondary, 1 per matched tertiary,
\* minus 10 per matched excluded keyword
WeightedCount(kws, p) ==
    3 * Cardinality(MatchedIn(kws, "primary", p))
    + 2 * Cardinality(MatchedIn(kws, "secondary", p))
    + 1 * Cardinality(MatchedIn(kws, "tertiary", p))
    - 10 * Cardinality(MatchedIn(kws, "exclude", p))

PositiveCategories == { "primary", "secondary", "tertiary" }

\* the matched keywords of the categories of positive weight
PositiveMatched(kws, p) ==
    UNION { { kws[c][i] : i \in MatchedIn(kws, c, p) } : c \in PositiveCategories }

\* the counts above, tabulated once per configuration and paper
WeightedCountOf ==
    [ kws \in KeywordConfigs |-> [ p \in PaperIds |-> WeightedCount(kws, p) ] ]

PositiveMatchedOf ==
    [ kws \in KeywordConfigs |-> [ p \in PaperIds |-> PositiveMatched(kws, p) ] ]

ExcludedMatchedOf ==
    [ kws \in KeywordConfigs |-> [ p \in PaperIds |-> MatchedIn(kws, "exclude", p) ] ]

\* the secondary keywords that occur more than once in the text of p
RepeatedOf ==
    [ kws \in KeywordConfigs |->
        [ p \in PaperIds |->
            { k \in Range(kws["secondary"]) :
                Cardinality(Occurrences(k, ScoredText(p))) >= 2 } ] ]

\* C26: the raw score of a paper is 3 times the matched primary keywords
\* plus 2 times the matched secondary plus the matched tertiary minus 10
\* times the matched excluded keywords, a keyword counting once however
\* often it occurs; matched_keywords lists exactly the matched keywords of
\* positive weight, each once, and no excluded keyword.
C26_RawScoreCountsOnce ==
    pc = "scored" =>
        \A p \in Range(scorer_in) :
            LET matched == last_score[p][2]
            IN  /\ RawOf[keywords][p] = WeightedCountOf[keywords][p]
                /\ last_score[p][1] = Min(100 * 9, Max(0, WeightedCountOf[keywords][p] * 20))
                /\ Range(matched) = PositiveMatchedOf[keywords][p]
                /\ \A i, j \in DOMAIN matched : matched[i] = matched[j] => i = j
                /\ Range(matched) \cap Range(keywords["exclude"]) = {}

\* a paper in which a keyword occurs twice, scored next to a paper that
\* matches an excluded keyword
C26_Witness ==
    /\ pc = "scored"
    /\ \E p \in Range(scorer_in) : \E k \in RepeatedOf[keywords][p] :
          k \in Range(last_score[p][2])
    /\ \E q \in Range(scorer_in) : ExcludedMatchedOf[keywords][q] # {}

-----------------------------------------------------------------------------
(* The retries of the OpenAlex client, checked under SpecCollectors *)

\* C27: _make_request ends after at most MAX_RETRIES attempts in total: a
\* further attempt is made only after a timeout, any other error ends the
\* attempts at once, the first successful response is returned without a
\* further attempt, and None is returned when no attempt succeeded, the
\* sub-query then contributing no paper.
C27_BoundedRetries ==
    (client = "openalex" /\ last_sub # NoSub) =>
        LET kinds == last_sub.kinds
            tries == last_sub.tries
        IN  /\ 1 <= tries /\ tries <= MAX_RETRIES
            /\ \A i \in 1 .. (tries - 1) : kinds[i] = "timeout"
            /\ tries < MAX_RETRIES => kinds[tries] # "timeout"
            /\ last_sub.data = "ok" <=> kinds[tries] = "ok"
            /\ last_sub.data # "ok" => (last_sub.data = "None" /\ last_sub.count = 0)
            /\ pc # "raised"

\* a timeout answered by a second attempt that brought papers, and in
\* another run of the loop two timeouts in a row
C27_Witness ==
    /\ client = "openalex"
    /\ last_sub.kinds = << "timeout", "ok" >>
    /\ last_sub.tries = MAX_RETRIES
    /\ last_sub.count > 0
    /\ request > 2

-----------------------------------------------------------------------------
(* The fields of the paper records, checked under Spec *)

\* relevance_score, matched_keywords and summary as Paper(...) sets them
Untouched(p) ==
    /\ relevance_score[p] = 0
    /\ matched_keywords[p] = << >>
    /\ summary[p] = << >>

\* C28: records are mutated by the scorer and the summarizer only:
\* deduplication and validation change no field of a record, kept or
\* dropped; filter_and_score_papers sets relevance_score and
\* matched_keywords on the retained records only, so that a dropped record
\* keeps relevance_score 0; title, abstract, source and source_id are at
\* serialization what they were at creation.
C28_OnlyScorerAndSummarizerMutate ==
    /\ pc \in { "main", "validate" } => \A p \in PaperIds : Untouched(p)
    /\ pc \in { "send", "exited" } =>
          /\ \A p \in PaperIds \ Range(papers) : Untouched(p)
          /\ \A p \in Range(papers) :
                /\ relevance_score[p] = last_score[p][1]
                /\ matched_keywords[p] = last_score[p][2]
          /\ \A i \in DOMAIN saved : \A j \in DOMAIN saved[i].data.papers :
                LET d == saved[i].data.papers[j]
                    p == papers[j]
                IN  /\ d.title = Catalogue[p].title
                    /\ d.abstract = Catalogue[p].abstract
                    /\ d.source = Catalogue[p].source
                    /\ d.source_id = Catalogue[p].source_id
                    /\ d.relevance_score = relevance_score[p]

\* a run that lost a record to the scorer, scored positive but under the
\* threshold, and wrote a digest with the record it retained
C28_Witness ==
    /\ pc = "exited"
    /\ saved # << >>
    /\ papers # << >>
    /\ \E p \in Range(validated_papers) \ Range(papers) : last_score[p][1] > 0

-----------------------------------------------------------------------------
(* The contents of a digest file, checked under SpecDigest *)

\* the min_score of the run of a period
Threshold(per) == IF per = "daily" THEN DailyMinScore ELSE WeeklyMinScore

\* the records of the scorer's input that reached the threshold
Survivors(per) ==
    { p \in Range(scorer_in) : last_score[p][1] >= Threshold(per) * 9 }

\* C29: every digest file a run writes has paper_count equal to the
\* length of papers and the period of the run, lists its papers by
\* non-increasing relevance_score, each at or above the threshold of the
\* run (5.0 daily, 10.0 weekly), and holds every paper that survived
\* scoring, not only the first max_papers that were summarized and mailed.
C29_DigestContents ==
    \A i \in DOMAIN saved :
        LET d == saved[i].data
        IN  /\ digest_file[saved[i].file] = d
            /\ d.paper_count = Len(d.papers)
            /\ d.period = period
            /\ saved[i].file[1] = period
            /\ \A j, k \in DOMAIN d.papers :
                  j < k => d.papers[j].relevance_score >= d.papers[k].relevance_score
            /\ \A j \in DOMAIN d.papers :
                  d.papers[j].relevance_score >= Threshold(period) * 9
            /\ Len(d.papers) = Cardinality(Survivors(period))
            /\ \A p \in Survivors(period) : \E j \in DOMAIN d.papers :
                  /\ d.papers[j].source = Catalogue[p].source
                  /\ d.papers[j].source_id = Catalogue[p].source_id
                  /\ d.papers[j].title = Catalogue[p].title

\* a daily digest of more than max_papers papers of different scores,
\* written by a run that also dropped a paper
C29_Witness ==
    /\ saved # << >>
    /\ period = "daily"
    /\ Len(saved[1].data.papers) > DailyMaxPapers
    /\ Len(saved[1].data.papers) < Len(scorer_in)
    /\ summarize_calls = DailyMaxPapers
    /\ \E j, k \in DOMAIN saved[1].data.papers :
          saved[1].data.papers[j].relevance_score > saved[1].data.papers[k].relevance_score

-----------------------------------------------------------------------------
(* The dashboard: load_digests on the files the runs wrote, checked under  *)
(* SpecRuns                                                                *)

\* the characters of a file name in the order of their code points
CodeOrder == <<".">> \o Digits \o UpperCase \o <<"_">> \o LowerCase

Ord(c) == CHOOSE i \in DOMAIN CodeOrder : CodeOrder[i] = c

\* a < b for str
TextLess(a, b) ==
    \E i \in 1 .. (Min(Len(a), Len(b)) + 1) :
        /\ \A j \in 1 .. (i - 1) : a[j] = b[j]
        /\ \/ i > Len(a) /\ i <= Len(b)
           \/ i <= Len(a) /\ i <= Len(b) /\ Ord(a[i]) < Ord(b[i])

\* strftime('%Y%m%d') of the d-th day
DateText(d) == <<"2","0","2","4","0","1">> \o << Digits[(d \div 10) + 1], Digits[(d % 10) + 1] >>

PeriodText(per) == IF per = "daily" THEN <<"d","a","i","l","y">> ELSE <<"w","e","e","k","l","y">>

\* f"{period}_digest_{date}.json"
FileText(name) == PeriodText(name[1]) \o <<"_","d","i","g","e","s","t","_">> \o DateText(name[2]) \o <<".","j","s","o","n">>

\* sorted(data_dir.glob("*.json"), reverse=True)
RECURSIVE SortedReverse(_)
SortedReverse(names) ==
    IF names = {} THEN << >>
    ELSE LET top == CHOOSE n \in names :
                        \A o \in names \ { n } : TextLess(FileText(o), FileText(n))
         IN  << top >> \o SortedReverse(names \ { top })

\* load_digests: the data of every file, in that order
load_digests(files) ==
    LET names == SortedReverse(DOMAIN files)
    IN  [ i \in DOMAIN names |-> files[names[i]] ]

\* a later datetime
Later(a, b) == a[1] > b[1] \/ (a[1] = b[1] /\ a[2] > b[2])

\* C30: after any sequence of daily and weekly runs, the digest the
\* dashboard shows as latest, the first element load_digests returns, is
\* the persisted digest with the greatest generated_at.
C30_LatestIsNewest ==
    digest_file # << >> =>
        LET latest == load_digests(digest_file)[1]
        IN  \A f \in DOMAIN digest_file :
                ~ Later(digest_file[f].generated_at, latest.generated_at)

\* the first element is the newest of the digests of its own period
C30_LatestIsNewestOfItsPeriod ==
    digest_file # << >> =>
        LET latest == load_digests(digest_file)[1]
        IN  \A f \in DOMAIN digest_file :
                f[1] = latest.period =>
                    ~ Later(digest_file[f].generated_at, latest.generated_at)

=============================================================================
